---- MODULE Spec2Model ----
(***************************************************************************)
(* A model of the front end of futon: the lexer (src/src/lexer.rs) as a    *)
(* state machine over a source text, one step per call of Lexer::next(),   *)
(* and the parser (src/src/parser.rs) as a state machine over a token      *)
(* stream, one step per iteration of the loop of Parser::parse(), and the   *)
(* type checker (src/src/typeck.rs) as a state machine over the items of a *)
(* program, one step per iteration of the loop of the infer_types() that   *)
(* main calls.                                                             *)
(*                                                                         *)
(* Characters are one-character strings; a text is a sequence of them.     *)
(* Indices into the source are 0-based as in the code (byte offsets of an  *)
(* ASCII text), so the character at index i is source[i + 1].              *)
(***************************************************************************)
EXTENDS Integers, Sequences, FiniteSets, TLC

VARIABLES
    source,     \* Lexer.source: the text being lexed
    lexer,      \* Lexer: [line, column, position, iter, peeked]
    result,     \* what the last call of Lexer::next() produced
    tokens,     \* the token stream the parser pulls through MultiPeek
    parser,     \* Parser: [pos (tokens consumed from MultiPeek), arena]
    items,      \* Parser::parse: the local `items`
    outcome,    \* what Parser::parse() produced, "Running" until it ends
    checker     \* infer_types as main calls it: [arena, locals, lowered_items,
                \* at (items the loop is through with), res]

vars == <<source, lexer, result, tokens, parser, items, outcome, checker>>

-----------------------------------------------------------------------------
(* Bounds of the model.                                                    *)

\* Longest source text drawn from the whole lexer alphabet.
MaxLen == 4

\* Longest token stream drawn from the whole top-level alphabet.
MaxTop == 3

\* Longest run of operand and operator tokens in a statement.
MaxExpr == 5

\* Longest run of tokens in the place of a type.
MaxTy == 3

\* Longest run of statements drawn from the whole statement alphabet into a
\* function body given to the type checker.
MaxStmts == 3

\* Deepest nesting of the declared types drawn for the type checker.
MaxTypeDepth == 2

-----------------------------------------------------------------------------
(* Characters.                                                             *)

Lower == {"a","b","c","d","e","f","g","h","i","j","k","l","m",
          "n","o","p","q","r","s","t","u","v","w","x","y","z"}

Upper == {"A","B","C","D","E","F","G","H","I","J","K","L","M",
          "N","O","P","Q","R","S","T","U","V","W","X","Y","Z"}

DigitChars == <<"0","1","2","3","4","5","6","7","8","9">>

\* char::is_alphabetic, char::is_digit(10), char::is_alphanumeric and
\* char::is_whitespace on the ASCII characters the model uses.
is_alphabetic(ch) == ch \in Lower \cup Upper

is_digit(ch) == \E i \in 1..10 : DigitChars[i] = ch

is_alphanumeric(ch) == is_alphabetic(ch) \/ is_digit(ch)

is_whitespace(ch) == ch \in {" ", "\t", "\n", "\r"}

DigitValue(ch) == (CHOOSE i \in 1..10 : DigitChars[i] = ch) - 1

\* Lexer::can_start_identifier
can_start_identifier(ch) == is_alphabetic(ch) \/ ch = "_"

\* Lexer::can_be_in_identifier
can_be_in_identifier(ch) == is_alphanumeric(ch) \/ ch = "_"

\* The keywords! registration: the KEYWORDS table, spelling -> Keyword.
KEYWORDS ==
    << <<"if", <<"i","f">> >>,
       <<"else", <<"e","l","s","e">> >>,
       <<"for", <<"f","o","r">> >>,
       <<"while", <<"w","h","i","l","e">> >>,
       <<"loop", <<"l","o","o","p">> >>,
       <<"func", <<"f","u","n","c">> >>,
       <<"yield", <<"y","i","e","l","d">> >>,
       <<"return", <<"r","e","t","u","r","n">> >>,
       <<"break", <<"b","r","e","a","k">> >>,
       <<"true", <<"t","r","u","e">> >>,
       <<"false", <<"f","a","l","s","e">> >>,
       <<"in", <<"i","n">> >> >>

\* Lexer::get_keyword: the first entry of the table whose spelling is text,
\* "" (None) when there is none.
get_keyword(text) ==
    IF \E i \in 1..Len(KEYWORDS) : KEYWORDS[i][2] = text
    THEN KEYWORDS[CHOOSE i \in 1..Len(KEYWORDS) :
                    /\ KEYWORDS[i][2] = text
                    /\ \A j \in 1..(i - 1) : KEYWORDS[j][2] # text][1]
    ELSE ""

-----------------------------------------------------------------------------
(* The lexer's cursor.                                                     *)

\* Lexer.tab_size, set by Lexer::from_source.
tab_size == 4

None == <<>>

\* Lexer::from_source
from_source ==
    [line |-> 1, column |-> 1, position |-> 0, iter |-> 0, peeked |-> None]

\* Lexer::ensure_peeked: iter counts the characters the CharIndices iterator
\* has yielded; peeked is None or <<index, char>>.
ensure_peeked(L) ==
    IF L.peeked = None /\ L.iter < Len(source)
    THEN [L EXCEPT !.peeked = <<L.iter, source[L.iter + 1]>>, !.iter = L.iter + 1]
    ELSE L

\* Lexer::peek: the character, EOF for None.
EOF == "EOF"

peek(L) ==
    LET P == ensure_peeked(L).peeked IN IF P = None THEN EOF ELSE P[2]

\* Lexer::peek_index: the index of the peeked character, -1 for None.
peek_index(L) ==
    LET P == ensure_peeked(L).peeked IN IF P = None THEN -1 ELSE P[1]

\* advance_position with the tab counted as one column, like any character.
advance_position_tab_as_one(L, ch) ==
    IF ch = "\n" THEN [L EXCEPT !.column = 1, !.line = L.line + 1]
    ELSE [L EXCEPT !.column = L.column + 1]

\* The new (line, column) of Lexer::advance after consuming ch.
advance_position(L, ch) ==
    IF ch = "\n" THEN [L EXCEPT !.column = 1, !.line = L.line + 1]
    ELSE IF ch = "\t" THEN [L EXCEPT !.column = L.column + tab_size]
    ELSE [L EXCEPT !.column = L.column + 1]

\* Lexer::advance: the lexer after the call (the call returns None and changes
\* nothing but peeked when no character is left).
advance(L) ==
    LET L1 == ensure_peeked(L) IN
    IF L1.peeked = None THEN L1
    ELSE LET L2 == advance_position([L1 EXCEPT !.peeked = None], L1.peeked[2])
             L3 == ensure_peeked(L2)
         IN IF L3.peeked # None THEN [L3 EXCEPT !.position = L3.peeked[1]] ELSE L3

\* Lexer::skip_space
RECURSIVE skip_space(_)
skip_space(L) ==
    IF peek(L) # EOF /\ is_whitespace(peek(L)) THEN skip_space(advance(L))
    ELSE ensure_peeked(L)

\* Lexer::take_slice_from: the Lexeme [start, length] (raw is the source).
take_slice_from(L, idx_start) ==
    LET idx_end == IF peek_index(L) = -1 THEN Len(source) ELSE peek_index(L)
    IN [start |-> idx_start, length |-> idx_end - idx_start]

\* Lexeme::as_slice
as_slice(lexeme) == SubSeq(source, lexeme.start + 1, lexeme.start + lexeme.length)

\* Lexeme::default
DefaultLexeme == [start |-> 0, length |-> 0]

Ok(L, value, lexeme, line, column) ==
    [lexer |-> L,
     res |-> [r |-> "Ok",
              token |-> [value |-> value, lexeme |-> lexeme,
                         line |-> line, column |-> column]]]

Err(L, line, column) ==
    [lexer |-> L,
     res |-> [r |-> "Err",
              error |-> [e |-> "UnexpectedEndOfSource",
                         line |-> line, column |-> column]]]

\* A panic (an unwrap of an Err): the call does not return.
Panic(L) == [lexer |-> L, res |-> [r |-> "Panic"]]

-----------------------------------------------------------------------------
(* Conversions of numeric text (str::parse of the standard library).       *)

\* i32::MAX, the largest value str::parse::<i32> accepts.
I32_MAX == 2147483647

AllDigits(text) == \A i \in 1..Len(text) : is_digit(text[i])

\* The value of a run of decimal digits.
RECURSIVE DecimalValue(_)
DecimalValue(text) ==
    IF text = <<>> THEN 0
    ELSE 10 * DecimalValue(SubSeq(text, 1, Len(text) - 1)) + DigitValue(text[Len(text)])

\* The digits accumulated with checked_mul and checked_add, as the standard
\* library does: -1 once the value would exceed i32::MAX.
RECURSIVE CheckedDecimal(_, _)
CheckedDecimal(text, acc) ==
    IF text = <<>> THEN acc
    ELSE IF acc > (I32_MAX - DigitValue(Head(text))) \div 10 THEN -1
    ELSE CheckedDecimal(Tail(text), 10 * acc + DigitValue(Head(text)))

\* The index of the first character of text in set, 0 when there is none.
FirstIn(text, set) ==
    IF \E i \in 1..Len(text) : text[i] \in set
    THEN CHOOSE i \in 1..Len(text) :
            text[i] \in set /\ \A j \in 1..(i - 1) : text[j] \notin set
    ELSE 0

\* str::parse::<i32> on text that starts with a digit (so the sign it would
\* accept never occurs): one or more digits and nothing else, in range.
\* [ok, val]; ok = FALSE is the Err the caller unwraps.
parse_i32(text) ==
    IF text # <<>> /\ AllDigits(text) /\ CheckedDecimal(text, 0) # -1
    THEN [ok |-> TRUE, val |-> CheckedDecimal(text, 0)]
    ELSE [ok |-> FALSE, val |-> 0]

\* A decimal m * 10^e with no trailing zero in m.
RECURSIVE NormalDecimal(_, _)
NormalDecimal(m, e) ==
    IF m = 0 THEN [m |-> 0, e |-> 0]
    ELSE IF m % 10 = 0 THEN NormalDecimal(m \div 10, e + 1)
    ELSE [m |-> m, e |-> e]

\* str::parse::<f32> on text that starts with a digit: digits, an optional
\* `.` and digits, an optional exponent `e`/`E` with an optional sign and one
\* or more digits; anything else is Err. The value is kept as the exact
\* decimal the text denotes (the f32 is the float nearest to it).
parse_f32(text) ==
    LET epos == FirstIn(text, {"e", "E"})
        mant == IF epos = 0 THEN text ELSE SubSeq(text, 1, epos - 1)
        expo == IF epos = 0 THEN <<>> ELSE SubSeq(text, epos + 1, Len(text))
        dpos == FirstIn(mant, {"."})
        int  == IF dpos = 0 THEN mant ELSE SubSeq(mant, 1, dpos - 1)
        frac == IF dpos = 0 THEN <<>> ELSE SubSeq(mant, dpos + 1, Len(mant))
        esigned == expo # <<>> /\ expo[1] \in {"+", "-"}
        edigits == IF esigned THEN Tail(expo) ELSE expo
        eval == IF esigned /\ expo[1] = "-" THEN 0 - DecimalValue(edigits)
                ELSE DecimalValue(edigits)
        valid == /\ AllDigits(int) /\ AllDigits(frac)
                 /\ (int # <<>> \/ frac # <<>>)
                 /\ (epos # 0 => edigits # <<>> /\ AllDigits(edigits))
    IN IF valid
       THEN [ok |-> TRUE,
             val |-> NormalDecimal(DecimalValue(int \o frac), eval - Len(frac))]
       ELSE [ok |-> FALSE, val |-> [m |-> 0, e |-> 0]]

-----------------------------------------------------------------------------
(* The token matchers. Each takes the lexer as Lexer::next() leaves it     *)
(* after skip_space and yields [lexer, res].                               *)

\* The loop of Lexer::match_keyword_or_identifier.
RECURSIVE advance_while_identifier(_)
advance_while_identifier(L) ==
    IF peek(L) # EOF /\ can_be_in_identifier(peek(L))
    THEN advance_while_identifier(advance(L))
    ELSE ensure_peeked(L)

\* Lexer::match_keyword_or_identifier
match_keyword_or_identifier(L) ==
    LET idx_start == L.position
        L1 == advance_while_identifier(L)
        lexeme == take_slice_from(L1, idx_start)
        keyword == get_keyword(as_slice(lexeme))
        kind == IF keyword # "" THEN [tv |-> "Keyword", v |-> keyword]
                ELSE [tv |-> "Identifier", v |-> ""]
    IN Ok(L1, kind, lexeme, L.line, L.column)

\* The loop of Lexer::match_string: [lexer, string, closed].
RECURSIVE string_loop(_, _)
string_loop(L, string) ==
    IF peek(L) = EOF THEN [lexer |-> ensure_peeked(L), string |-> string, closed |-> FALSE]
    ELSE IF peek(L) = "\"" THEN [lexer |-> advance(L), string |-> string, closed |-> TRUE]
    ELSE string_loop(advance(L), Append(string, peek(L)))

\* unterminated_position reporting the opening quote instead.
unterminated_position_at_quote(start, end) == <<start.line, start.column>>

\* The position Lexer::match_string reports when the source ends in a string.
unterminated_position(start, end) == <<end.line, end.column>>

\* Lexer::match_string
match_string(L) ==
    LET idx_start == L.position
        S == string_loop(advance(L), <<>>)
        at == unterminated_position(L, S.lexer)
    IN IF S.closed
       THEN Ok(S.lexer, [tv |-> "String", v |-> S.string],
               take_slice_from(S.lexer, idx_start), L.line, L.column)
       ELSE Err(S.lexer, at[1], at[2])

\* The Special a punctuation character is tagged with.
special_of(L, first) == [sp |-> "Single", ch |-> first]

\* Lexer::match_special
match_special(L, first) ==
    LET start_idx == L.position
        L1 == advance(L)
    IN Ok(L1, [tv |-> "Special", v |-> special_of(L, first)],
          take_slice_from(L1, start_idx), L.line, L.column)

\* match_end_of_source reporting the end of the source as an error.
match_end_of_source_as_error(L) == Err(L, L.line, L.column)

\* Lexer::match_end_of_source
match_end_of_source(L) ==
    Ok(L, [tv |-> "None", v |-> ""], DefaultLexeme, L.line, L.column)

\* Lexer::advance_while_digits
RECURSIVE advance_while_digits(_)
advance_while_digits(L) ==
    IF is_digit(peek(L)) \/ peek(L) = "_" THEN advance_while_digits(advance(L))
    ELSE ensure_peeked(L)

\* Lexer::match_number
match_number(L) ==
    LET idx_start == L.position
        L1 == advance_while_digits(L)
        has_dot == peek(L1) = "."
        L2 == IF has_dot THEN advance_while_digits(advance(L1)) ELSE L1
        has_exponent == peek(L2) \in {"e", "E"}
        L3 == IF has_exponent THEN advance(L2) ELSE L2
        L4 == IF has_exponent
              THEN advance_while_digits(IF peek(L3) \in {"+", "-"} THEN advance(L3) ELSE L3)
              ELSE L3
        is_floating == has_dot \/ has_exponent
        lexeme == take_slice_from(L4, idx_start)
        f == parse_f32(as_slice(lexeme))
        i == parse_i32(as_slice(lexeme))
    IN IF is_floating
       THEN IF f.ok THEN Ok(L4, [tv |-> "FloatingNumber", v |-> f.val],
                            lexeme, L.line, L.column)
            ELSE Panic(L4)
       ELSE IF i.ok THEN Ok(L4, [tv |-> "IntegralNumber", v |-> i.val],
                            lexeme, L.line, L.column)
            ELSE Panic(L4)

\* Token::get_type
get_type(token) ==
    IF token.value.tv = "None" THEN "EndOfSource" ELSE token.value.tv

-----------------------------------------------------------------------------
(* The lexer as a state machine: one step per call of Lexer::next().       *)

\* The characters source texts are drawn from: letters (one of them the
\* exponent mark), a digit, the digit separator, two punctuation characters
\* (one of them the decimal point), the three kinds of whitespace and the
\* string quote.
Alphabet == {"f", "e", "1", "_", ".", "-", " ", "\t", "\n", "\""}

\* Texts of the specification's examples and of the limits of i32.
Samples ==
    { <<"1","2","3">>, <<"1",".","5">>, <<"1","e","3">>, <<"1","_","0","0","0">>,
      <<"1","E","+","2">>, <<"1","0",".","2","5","e","-","1">>,
      <<"2","1","4","7","4","8","3","6","4","7">>,
      <<"2","1","4","7","4","8","3","6","4","8">>,
      <<"\"","a","b","c","\"">>, <<"\"","a","b","c">>,
      <<"-",">">>, <<"-"," ",">">>,
      <<"f","n">>, <<"F","N">>, <<"r","a","n","g","e">>,
      <<"i","f">>, <<"I","f">>, <<"e","l","s","e">>, <<"f","o","r">>,
      <<"w","h","i","l","e">>, <<"l","o","o","p">>, <<"f","u","n","c">>,
      <<"y","i","e","l","d">>, <<"r","e","t","u","r","n">>,
      <<"b","r","e","a","k">>, <<"t","r","u","e">>, <<"f","a","l","s","e">>,
      <<"i","n">>, <<"e","x","t","e","r","n">>, <<"s","t","r","u","c","t">>,
      <<"l","e","t">>, <<"l","e","t","\t","x","\n","=","\t","1",";">> }

Sources == UNION {[1..n -> Alphabet] : n \in 0..MaxLen} \cup Samples

NoTokens == <<>>

IdleParser == [pos |-> 0, arena |-> <<>>]

NoError == [e |-> "None"]

\* HashMap::new(): no name has a type.
NoLocals == [name \in {} |-> 0]

IdleChecker ==
    [arena |-> <<>>, locals |-> NoLocals, lowered_items |-> <<>>, at |-> 0,
     res |-> "Idle"]

InitLexer ==
    /\ source \in Sources
    /\ lexer = from_source
    /\ result = [r |-> "None"]
    /\ tokens = NoTokens
    /\ parser = IdleParser
    /\ items = <<>>
    /\ outcome = [res |-> "Idle", error |-> NoError]
    /\ checker = IdleChecker

\* A call of Lexer::next() that ends as R says.
Returns(R) ==
    /\ lexer' = R.lexer
    /\ result' = R.res
    /\ UNCHANGED <<source, tokens, parser, items, outcome, checker>>

\* A call can be made unless an earlier one panicked.
Callable == result.r # "Panic"

\* Lexer::next(), first arm: an identifier or a keyword.
NextKeywordOrIdentifier ==
    /\ Callable
    /\ can_start_identifier(peek(skip_space(lexer)))
    /\ Returns(match_keyword_or_identifier(skip_space(lexer)))

\* Lexer::next(), second arm: a number.
NextNumber ==
    /\ Callable
    /\ ~can_start_identifier(peek(skip_space(lexer)))
    /\ is_digit(peek(skip_space(lexer)))
    /\ Returns(match_number(skip_space(lexer)))

\* Lexer::next(), third arm: a string.
NextString ==
    /\ Callable
    /\ peek(skip_space(lexer)) = "\""
    /\ Returns(match_string(skip_space(lexer)))

\* Lexer::next(), fourth arm: any other character.
NextSpecial ==
    /\ Callable
    /\ peek(skip_space(lexer)) # EOF
    /\ ~can_start_identifier(peek(skip_space(lexer)))
    /\ ~is_digit(peek(skip_space(lexer)))
    /\ peek(skip_space(lexer)) # "\""
    /\ Returns(match_special(skip_space(lexer), peek(skip_space(lexer))))

\* Lexer::next(), last arm: the end of the source.
NextEndOfSource ==
    /\ Callable
    /\ peek(skip_space(lexer)) = EOF
    /\ Returns(match_end_of_source(skip_space(lexer)))

NextLexer ==
    \/ NextKeywordOrIdentifier
    \/ NextNumber
    \/ NextString
    \/ NextSpecial
    \/ NextEndOfSource

SpecLexer == InitLexer /\ [][NextLexer]_vars

-----------------------------------------------------------------------------
(* What the claims about the lexer speak of.                               *)

\* The index of the next character the lexer will read.
Cursor(L) == IF L.peeked # None THEN L.peeked[1] ELSE L.iter

\* The least index from k on whose character does not satisfy P, Len(source)
\* when every character from k on does.
RunEnd(k, P(_)) ==
    CHOOSE j \in k..Len(source) :
        /\ \A i \in k..(j - 1) : P(source[i + 1])
        /\ j = Len(source) \/ ~P(source[j + 1])

\* The index at which the next token starts: the first character at or after
\* the cursor that is not whitespace (Len(source) when there is none).
NextTokenStart == RunEnd(Cursor(lexer), is_whitespace)

\* The 1-based (line, column) reached from (1, 1) by consuming text: a newline
\* sets the column to 1 and adds 1 to the line, a tab adds 4 to the column and
\* any other character adds 1.
RECURSIVE PositionAfter(_)
PositionAfter(text) ==
    IF text = <<>> THEN <<1, 1>>
    ELSE LET p == PositionAfter(SubSeq(text, 1, Len(text) - 1))
             ch == text[Len(text)]
         IN IF ch = "\n" THEN <<p[1] + 1, 1>>
            ELSE IF ch = "\t" THEN <<p[1], p[2] + 4>>
            ELSE <<p[1], p[2] + 1>>

PositionOf(k) == PositionAfter(SubSeq(source, 1, k))

IsDigitOrSeparator(ch) == is_digit(ch) \/ ch = "_"

\* A punctuation character: one that starts neither an identifier, a number
\* nor a string, and is not whitespace.
IsPunctuation(ch) ==
    ~can_start_identifier(ch) /\ ~is_digit(ch) /\ ch # "\"" /\ ~is_whitespace(ch)

\* text without its `_` separators.
RECURSIVE WithoutSeparators(_)
WithoutSeparators(text) ==
    IF text = <<>> THEN <<>>
    ELSE IF Head(text) = "_" THEN WithoutSeparators(Tail(text))
    ELSE <<Head(text)>> \o WithoutSeparators(Tail(text))

\* The keyword spellings of the specification's keyword set.
SpecKeywords ==
    { <<"i","f">>, <<"e","l","s","e">>, <<"f","o","r">>, <<"w","h","i","l","e">>,
      <<"l","o","o","p">>, <<"f","n">>, <<"y","i","e","l","d">>,
      <<"r","e","t","u","r","n">>, <<"b","r","e","a","k">>, <<"t","r","u","e">>,
      <<"f","a","l","s","e">>, <<"i","n">>, <<"e","x","t","e","r","n">>,
      <<"s","t","r","u","c","t">>, <<"l","e","t">>, <<"r","a","n","g","e">> }

\* C1: every token returned by Lexer::next() carries the 1-based (line,
\* column) of its first character (of the end of the source for EndOfSource),
\* computed over all the characters before it, skipped whitespace included:
\* from (1,1), a newline sets the column to 1 and adds 1 to the line, a tab
\* adds 4 to the column, any other character adds 1.
C1_TokenPosition ==
    [][result'.r = "Ok" =>
         <<result'.token.line, result'.token.column>> = PositionOf(NextTokenStart)]_vars

\* A token on the second line, behind a tab.
C1_Witness ==
    /\ result.r = "Ok"
    /\ get_type(result.token) = "Identifier"
    /\ result.token.line = 2
    /\ result.token.column = 5

\* C2: every call of Lexer::next() returns a Token or a LexerError and never
\* aborts, numeric text that does not parse included.
C2_NeverAborts == result.r \in {"None", "Ok", "Err"}

\* C3: a numeric literal of digits and `_` separators alone lexes to one
\* IntegralNumber whose value is the decimal value of its digits, separators
\* ignored; a literal with a fractional part or an exponent lexes to one
\* FloatingNumber.
C3_NumberLiterals ==
    [][LET k == NextTokenStart
           e == RunEnd(k, IsDigitOrSeparator)
           digits == WithoutSeparators(SubSeq(source, k + 1, e))
           floating == e < Len(source) /\ source[e + 1] \in {".", "e", "E"}
       IN (Callable /\ k < Len(source) /\ is_digit(source[k + 1])
             /\ CheckedDecimal(digits, 0) # -1) =>
            /\ result'.r = "Ok"
            /\ result'.token.lexeme.start = k
            /\ IF floating
               THEN result'.token.value.tv = "FloatingNumber"
               ELSE /\ result'.token.value.tv = "IntegralNumber"
                    /\ result'.token.value.v = DecimalValue(digits)
                    /\ result'.token.lexeme.length = e - k]_vars

\* C4: at a `"` the lexer returns a String token holding exactly the
\* characters up to the next `"`, positioned at the opening quote; when the
\* source ends first it returns UnexpectedEndOfSource(line, column) with the
\* position of the end of the source.
C4_StringLiteral ==
    [][LET k == NextTokenStart
           rest == SubSeq(source, k + 2, Len(source))
           q == FirstIn(rest, {"\""})
       IN (Callable /\ k < Len(source) /\ source[k + 1] = "\"") =>
            IF q # 0
            THEN /\ result'.r = "Ok"
                 /\ result'.token.value.tv = "String"
                 /\ result'.token.value.v = SubSeq(rest, 1, q - 1)
                 /\ <<result'.token.line, result'.token.column>> = PositionOf(k)
                 /\ Cursor(lexer') = k + q + 1
            ELSE /\ result'.r = "Err"
                 /\ result'.error.e = "UnexpectedEndOfSource"
                 /\ <<result'.error.line, result'.error.column>> = PositionOf(Len(source))]_vars

\* An unterminated string that runs over a line break: the error is reported
\* on the second line, the opening quote is on the first.
C4_Witness ==
    /\ result.r = "Err"
    /\ source[1] = "\""
    /\ result.error.line = 2
    /\ result.error.column = 2

\* C5: each punctuation character is its own one-character token, tagged
\* Joint exactly when the character right after it is a punctuation character
\* too, and Single otherwise.
C5_JointTagging ==
    [][LET k == NextTokenStart
       IN (Callable /\ k < Len(source) /\ IsPunctuation(source[k + 1])) =>
            /\ result'.r = "Ok"
            /\ result'.token.value.tv = "Special"
            /\ result'.token.value.v.ch = source[k + 1]
            /\ result'.token.lexeme = [start |-> k, length |-> 1]
            /\ result'.token.value.v.sp =
                 IF k + 1 < Len(source) /\ IsPunctuation(source[k + 2])
                 THEN "Joint" ELSE "Single"]_vars

\* C6: once the input is exhausted, every further call of Lexer::next()
\* returns an EndOfSource token, never an error, each with the same line and
\* column, and leaves the lexer's line, column and position unchanged.
C6_EndOfSourceRepeats ==
    [][(Callable /\ Cursor(lexer) = Len(source)) =>
         /\ result'.r = "Ok"
         /\ get_type(result'.token) = "EndOfSource"
         /\ <<result'.token.line, result'.token.column>> = <<lexer.line, lexer.column>>
         /\ (result.r = "Ok" /\ get_type(result.token) = "EndOfSource"
               => result'.token = result.token)
         /\ lexer'.line = lexer.line
         /\ lexer'.column = lexer.column
         /\ lexer'.position = lexer.position]_vars

\* EndOfSource returned at the end of a source of more than one line.
C6_Witness ==
    /\ result.r = "Ok"
    /\ get_type(result.token) = "EndOfSource"
    /\ Cursor(lexer) = Len(source)
    /\ result.token.line = 2
    /\ result.token.column = 3

\* C7: an identifier-shaped run lexes to a Keyword token exactly when its
\* spelling is in the specification's keyword set, and to an Identifier
\* otherwise.
C7_KeywordSet ==
    [][LET k == NextTokenStart
           e == RunEnd(k, can_be_in_identifier)
       IN (Callable /\ k < Len(source) /\ can_start_identifier(source[k + 1])) =>
            /\ result'.r = "Ok"
            /\ result'.token.lexeme = [start |-> k, length |-> e - k]
            /\ result'.token.value.tv =
                 IF SubSeq(source, k + 1, e) \in SpecKeywords
                 THEN "Keyword" ELSE "Identifier"]_vars

\* C26: every call of Lexer::next() made while a character that is not
\* whitespace remains consumes at least one character, and no call moves the
\* cursor backwards; so repeated calls come to EndOfSource or to a LexerError
\* within as many consuming calls as the source has characters, every call on
\* the way returning.
C26_Progress ==
    [][/\ Cursor(lexer') >= Cursor(lexer)
       /\ NextTokenStart < Len(source) => Cursor(lexer') > NextTokenStart
       /\ result'.r \in {"Ok", "Err"}]_vars

-----------------------------------------------------------------------------
(* The parser's view of tokens. The parser is written against tokens whose *)
(* punctuation carries a PunctKind: a token is [type, v, n, kind], v the   *)
(* character of a Punct, the name of a Keyword, the text of an Identifier  *)
(* or the f32 of a FloatingNumber (as written), n the value of an          *)
(* IntegralNumber, kind Single or Joint for a Punct.                       *)

EndOfSourceToken == [type |-> "EndOfSource", v |-> "", n |-> 0, kind |-> ""]

\* Token::get_type as the parser uses it: the kind of a Punct is dropped.
token_type(token) ==
    [type |-> token.type,
     v |-> IF token.type \in {"Punct", "Keyword"} THEN token.v ELSE ""]

PunctType(ch) == [type |-> "Punct", v |-> ch]

KeywordType(keyword) == [type |-> "Keyword", v |-> keyword]

IsPunct(token, ch) == token.type = "Punct" /\ token.v = ch

IsKeyword(token, keyword) == token.type = "Keyword" /\ token.v = keyword

\* Parser::peek: MultiPeek::peek(offset); past the last token the lexer keeps
\* returning EndOfSource.
parser_peek(P, offset) ==
    IF P.pos + offset < Len(tokens) THEN tokens[P.pos + offset + 1]
    ELSE EndOfSourceToken

\* Parser::advance: MultiPeek::advance() (the token it returns is
\* parser_peek(P, 0)).
parser_advance(P) ==
    IF P.pos < Len(tokens) THEN [P EXCEPT !.pos = P.pos + 1] ELSE P

\* ParseResult: Ok(val), Err(ParseError) or a panic, with the parser after it.
ParseOk(val, P) == [res |-> "Ok", val |-> val, p |-> P]

ParseErr(error, P) == [res |-> "Err", val |-> error, p |-> P]

ParsePanic(P) == [res |-> "Panic", val |-> [e |-> "Panic"], p |-> P]

\* ParseError::Custom
Custom(msg) == [e |-> "Custom", msg |-> msg]

\* ParseError::UnexpectedToken; the token's line and column are its place in
\* the stream.
UnexpectedToken(actual, at, expected_type) ==
    [e |-> "UnexpectedToken", actual |-> actual, at |-> at, expected |-> expected_type]

NoType == [type |-> "None", v |-> ""]

\* Parser::expected
expected(P, type) == UnexpectedToken(token_type(parser_peek(P, 0)), P.pos, type)

\* Parser::match_punct: [ok, p]
match_punct(P, kind, ch) ==
    LET token == parser_peek(P, 0)
    IN IF IsPunct(token, ch) /\ token.kind = kind
       THEN [ok |-> TRUE, p |-> parser_advance(P)]
       ELSE [ok |-> FALSE, p |-> P]

\* Parser::match_one
match_one(P, ch) ==
    IF match_punct(P, "Single", ch).ok THEN match_punct(P, "Single", ch)
    ELSE match_punct(P, "Joint", ch)

\* Parser::expect_punct
expect_punct(P, kind, ch) ==
    IF match_punct(P, kind, ch).ok THEN ParseOk(<<>>, match_punct(P, kind, ch).p)
    ELSE ParseErr(expected(P, PunctType(ch)), P)

\* Parser::expect_one
expect_one(P, ch) ==
    IF expect_punct(P, "Single", ch).res = "Ok" THEN expect_punct(P, "Single", ch)
    ELSE expect_punct(P, "Joint", ch)

\* Parser::match_many: a token that is no punctuation at all is passed over by
\* the `if let`, and only a punctuation token can make the call return false.
match_many(P, chars) ==
    LET refused(index) ==
            LET token == parser_peek(P, index - 1)
            IN /\ token.type = "Punct"
               /\ \/ token.v # chars[index]
                  \/ token.kind = "Single" /\ index # Len(chars)
        RECURSIVE advanced(_, _)
        advanced(Q, n) == IF n = 0 THEN Q ELSE advanced(parser_advance(Q), n - 1)
    IN IF \E index \in 1..Len(chars) : refused(index)
       THEN [ok |-> FALSE, p |-> P]
       ELSE [ok |-> TRUE, p |-> advanced(P, Len(chars))]

\* Parser::match_keyword: [ok, p]
match_keyword(P, keyword) ==
    IF IsKeyword(parser_peek(P, 0), keyword)
    THEN [ok |-> TRUE, p |-> parser_advance(P)]
    ELSE [ok |-> FALSE, p |-> P]

\* Parser::expect_keyword
expect_keyword(P, keyword) ==
    IF match_keyword(P, keyword).ok THEN ParseOk(parser_peek(P, 0), parser_advance(P))
    ELSE ParseErr(expected(P, KeywordType(keyword)), P)

\* Parser::match_identifier: [ok, p] (the token is parser_peek(P, 0))
match_identifier(P) ==
    IF parser_peek(P, 0).type = "Identifier"
    THEN [ok |-> TRUE, p |-> parser_advance(P)]
    ELSE [ok |-> FALSE, p |-> P]

\* Parser::expect_identifier
expect_identifier(P) ==
    IF match_identifier(P).ok THEN ParseOk(parser_peek(P, 0), parser_advance(P))
    ELSE ParseErr(expected(P, [type |-> "Identifier", v |-> ""]), P)

\* get_precedence with `*` and `/` no higher than `+` and `-`.
get_precedence_flat(token) ==
    IF IsPunct(token, "+") THEN 1
    ELSE IF IsPunct(token, "-") THEN 1
    ELSE IF IsPunct(token, "*") THEN 1
    ELSE IF IsPunct(token, "/") THEN 1
    ELSE IF IsPunct(token, ".") THEN 3
    ELSE 0

\* Parser::get_precedence
get_precedence(token) ==
    IF IsPunct(token, "+") THEN 1
    ELSE IF IsPunct(token, "-") THEN 1
    ELSE IF IsPunct(token, "*") THEN 2
    ELSE IF IsPunct(token, "/") THEN 2
    ELSE IF IsPunct(token, ".") THEN 3
    ELSE 0

\* is_left_associative without the `.` arm.
is_left_associative_minus_only(token) == IsPunct(token, "-")

\* Parser::is_left_associative
is_left_associative(token) == IsPunct(token, "-") \/ IsPunct(token, ".")

-----------------------------------------------------------------------------
(* The type arena and type expressions. A TyS is a record tagged by ty; a  *)
(* Ty (a reference into the arena) is the index of its TyS in P.arena.     *)

\* Structural equality of two TyS of one arena (the derived PartialEq, which
\* compares referenced types by value).
RECURSIVE TyEq(_, _, _)
TyEq(arena, a, b) ==
    /\ a.ty = b.ty
    /\ CASE a.ty = "Array" -> a.len = b.len /\ TyEq(arena, arena[a.elem], arena[b.elem])
         [] a.ty = "Slice" -> TyEq(arena, arena[a.elem], arena[b.elem])
         [] a.ty = "Pointer" -> TyEq(arena, arena[a.elem], arena[b.elem])
         [] a.ty = "Other" -> a.name = b.name
         [] a.ty = "Tuple" ->
              /\ Len(a.elems) = Len(b.elems)
              /\ \A i \in 1..Len(a.elems) :
                    TyEq(arena, arena[a.elems[i]], arena[b.elems[i]])
         [] a.ty = "Function" ->
              /\ Len(a.elems) = Len(b.elems)
              /\ \A i \in 1..Len(a.elems) :
                    TyEq(arena, arena[a.elems[i]], arena[b.elems[i]])
              /\ TyEq(arena, arena[a.ret], arena[b.ret])
         [] OTHER -> TRUE

\* Arena::find: the first instance structurally equal to ty, 0 for None.
arena_find(arena, ty) ==
    IF \E i \in 1..Len(arena) : TyEq(arena, arena[i], ty)
    THEN CHOOSE i \in 1..Len(arena) :
            /\ TyEq(arena, arena[i], ty)
            /\ \A j \in 1..(i - 1) : ~TyEq(arena, arena[j], ty)
    ELSE 0

\* Arena::alloc: a new instance, whatever the arena holds.
arena_alloc(arena, ty) == Append(arena, ty)

make_ty_always_alloc(P, ty) ==
    [ty |-> Len(P.arena) + 1, p |-> [P EXCEPT !.arena = arena_alloc(P.arena, ty)]]

\* Parser::make_ty: [ty, p]
make_ty(P, ty) ==
    IF arena_find(P.arena, ty) # 0 THEN [ty |-> arena_find(P.arena, ty), p |-> P]
    ELSE [ty |-> Len(P.arena) + 1,
          p |-> [P EXCEPT !.arena = arena_alloc(P.arena, ty)]]

TyBool == [ty |-> "Bool"]
TyI32 == [ty |-> "I32"]
TyU32 == [ty |-> "U32"]
TyUnit == [ty |-> "Unit"]
TyOther(name) == [ty |-> "Other", name |-> name]
TyArray(len, elem) == [ty |-> "Array", len |-> len, elem |-> elem]
TySlice(elem) == [ty |-> "Slice", elem |-> elem]
TyPointer(elem) == [ty |-> "Pointer", elem |-> elem]
TyTuple(elems) == [ty |-> "Tuple", elems |-> elems]
TyFunction(elems, ret) == [ty |-> "Function", elems |-> elems, ret |-> ret]

\* The TyS a bare identifier names in Parser::parse_ty.
named_ty(text) ==
    IF text = "bool" THEN TyBool
    ELSE IF text = "i32" THEN TyI32
    ELSE IF text = "u32" THEN TyU32
    ELSE TyOther(text)

\* `let x = e; body`: Given([x \in {e} |-> body]) is body with x standing for
\* the value of e.
Given(f) == f[CHOOSE x \in DOMAIN f : TRUE]

\* The `?` on a result followed by Ok(val): the error, or val with the parser
\* the result left.
then_ok(r, val) == IF r.res # "Ok" THEN r ELSE ParseOk(val, r.p)

RECURSIVE parse_ty(_)
RECURSIVE parse_ty_tuple_loop(_, _)

\* ty.map(|ty| self.make_ty(ty)) of Parser::parse_ty, given what make_ty
\* returned.
interned(made) == ParseOk(made.ty, made.p)

\* The ret of a function (type): Parser::parse_fn and the Fn arm of
\* Parser::parse_ty.
return_ty(P) ==
    Given([arrow \in {match_many(P, <<"-", ">">>)} |->
        IF arrow.ok THEN parse_ty(arrow.p) ELSE interned(make_ty(P, TyUnit))])

\* Parser::parse_ty: the TyS is built, then interned by make_ty.
parse_ty(P) ==
    LET token == parser_peek(P, 0)
        P1 == parser_advance(P)
        sized == parser_peek(P1, 0).type = "IntegralNumber"
        length == parser_peek(P1, 0).n
    IN IF IsPunct(token, "[")
       THEN Given([close \in {expect_one(IF sized THEN parser_advance(P1) ELSE P1, "]")} |->
                IF close.res # "Ok" THEN close ELSE
            Given([elem \in {parse_ty(close.p)} |->
                IF elem.res # "Ok" THEN elem
                ELSE IF sized THEN interned(make_ty(elem.p, TyArray(length, elem.val)))
                ELSE interned(make_ty(elem.p, TySlice(elem.val)))])])
       ELSE IF IsPunct(token, "*")
       THEN Given([inner \in {parse_ty(P1)} |->
                IF inner.res # "Ok" THEN inner
                ELSE interned(make_ty(inner.p, TyPointer(inner.val)))])
       ELSE IF token.type = "Identifier" THEN interned(make_ty(P1, named_ty(token.v)))
       ELSE IF IsKeyword(token, "Fn")
       THEN Given([open \in {expect_one(P1, "(")} |->
                IF open.res # "Ok" THEN open ELSE
            Given([args \in {parse_ty_tuple_loop(open.p, <<>>)} |->
                IF args.res # "Ok" THEN args ELSE
            Given([ret \in {return_ty(args.p)} |->
                IF ret.res # "Ok" THEN ret
                ELSE interned(make_ty(ret.p, TyFunction(args.val, ret.val)))])])])
       ELSE IF IsPunct(token, "(")
       THEN Given([types \in {parse_ty_tuple_loop(P1, <<>>)} |->
                IF types.res # "Ok" THEN types
                ELSE interned(make_ty(types.p, TyTuple(types.val)))])
       ELSE ParsePanic(P1)

\* Parser::parse_ty_tuple, from one iteration of its loop on.
parse_ty_tuple_loop(P, args) ==
    Given([close \in {match_one(P, ")")} |->
        IF close.ok THEN ParseOk(args, close.p) ELSE
    Given([ty \in {parse_ty(P)} |->
        IF ty.res # "Ok" THEN ty ELSE
    Given([comma \in {match_one(ty.p, ",")} |->
        IF comma.ok THEN parse_ty_tuple_loop(comma.p, Append(args, ty.val))
        ELSE then_ok(expect_one(ty.p, ")"), Append(args, ty.val))])])])

\* Parser::parse_ty_tuple
parse_ty_tuple(P) == parse_ty_tuple_loop(P, <<>>)

-----------------------------------------------------------------------------
(* Expressions (ast::Expression) and their parser.                         *)

NoExpr == [k |-> "None"]

Identifier(name) == [k |-> "Identifier", name |-> name]
Integer(val) == [k |-> "Integer", val |-> val]
Float(val) == [k |-> "Float", val |-> val]
Bool(val) == [k |-> "Bool", val |-> val]
Prefix(op, operand) == [k |-> "Prefix", op |-> op, operand |-> operand]
Range(from, to) == [k |-> "Range", from |-> from, to |-> to]
Tuple(values) == [k |-> "Tuple", values |-> values]
Array(values) == [k |-> "Array", values |-> values]
Infix(op, lhs, rhs) == [k |-> "Infix", op |-> op, lhs |-> lhs, rhs |-> rhs]
Place(lhs, rhs) == [k |-> "Place", lhs |-> lhs, rhs |-> rhs]
Call(callee, args) == [k |-> "Call", callee |-> callee, args |-> args]

\* The Operator of a prefix token (parser.rs:129-134).
prefix_operator(token) ==
    IF IsPunct(token, "-") THEN "Negate"
    ELSE IF IsPunct(token, "&") THEN "Ref"
    ELSE "Deref"

\* The Operator of an arithmetic token (parser.rs:209-215).
arithmetic_operator(token) ==
    IF IsPunct(token, "+") THEN "Add"
    ELSE IF IsPunct(token, "-") THEN "Sub"
    ELSE IF IsPunct(token, "*") THEN "Mul"
    ELSE "Div"

comparison_operator_any_kind(first, second) ==
    IF IsPunct(first, "<") /\ IsPunct(second, "=") THEN "LessEqual"
    ELSE IF IsPunct(first, "<") /\ IsPunct(second, ">") THEN "NotEqual"
    ELSE IF IsPunct(first, ">") /\ IsPunct(second, "=") THEN "GreaterEqual"
    ELSE IF IsPunct(first, "<") THEN "Less"
    ELSE IF IsPunct(first, ">") THEN "Greater"
    ELSE IF IsPunct(first, "=") /\ IsPunct(second, "=") THEN "Equal"
    ELSE IF IsPunct(first, "!") /\ IsPunct(second, "=") THEN "NotEqual"
    ELSE IF IsPunct(first, "=") THEN "Stop"
    ELSE "Unexpected"

\* The match on (first, second, is_joint) of parser.rs:235-254, arms in
\* order: an Operator, "Stop" for the bare `=` that returns the expression,
\* "Unexpected" for the arm that returns an error.
comparison_operator(first, second) ==
    LET is_joint == first.kind = "Joint"
    IN IF IsPunct(first, "<") /\ IsPunct(second, "=") /\ is_joint THEN "LessEqual"
       ELSE IF IsPunct(first, "<") /\ IsPunct(second, ">") /\ is_joint THEN "NotEqual"
       ELSE IF IsPunct(first, ">") /\ IsPunct(second, "=") /\ is_joint THEN "GreaterEqual"
       ELSE IF IsPunct(first, "<") THEN "Less"
       ELSE IF IsPunct(first, ">") THEN "Greater"
       ELSE IF IsPunct(first, "=") /\ IsPunct(second, "=") /\ is_joint THEN "Equal"
       ELSE IF IsPunct(first, "!") /\ IsPunct(second, "=") /\ is_joint THEN "NotEqual"
       ELSE IF IsPunct(first, "=") THEN "Stop"
       ELSE "Unexpected"

RECURSIVE parse_expr_opt(_, _)
RECURSIVE operator_loop(_, _, _)
RECURSIVE parse_comma_separated_exprs_loop(_, _)
RECURSIVE array_loop(_, _)

\* Parser::parse_expr
parse_expr(P, precedence) ==
    Given([r \in {parse_expr_opt(P, precedence)} |->
        IF r.res = "Ok" /\ r.val = NoExpr
        THEN ParseErr(Custom("missing expression"), r.p)
        ELSE r])

\* Parser::parse_comma_separated_exprs, from one iteration of its loop on.
parse_comma_separated_exprs_loop(P, values) ==
    Given([value \in {parse_expr(P, 0)} |->
        IF value.res # "Ok" THEN value ELSE
    Given([comma \in {match_one(value.p, ",")} |->
        IF comma.ok
        THEN parse_comma_separated_exprs_loop(comma.p, Append(values, value.val))
        ELSE ParseOk(Append(values, value.val), value.p)])])

parse_comma_separated_exprs_or_none(P) ==
    IF IsPunct(parser_peek(P, 0), ")") THEN ParseOk(<<>>, P)
    ELSE parse_comma_separated_exprs_loop(P, <<>>)

\* Parser::parse_comma_separated_exprs
parse_comma_separated_exprs(P) == parse_comma_separated_exprs_loop(P, <<>>)

\* The loop of the `[` arm of Parser::parse_expr_opt (parser.rs:175-181), from
\* one iteration on.
array_loop(P, values) ==
    Given([close \in {match_one(P, "]")} |->
        IF close.ok THEN ParseOk(Array(values), close.p) ELSE
    Given([value \in {parse_expr(P, 0)} |->
        IF value.res # "Ok" THEN value
        ELSE array_loop(match_one(value.p, ",").p, Append(values, value.val))])])

\* The primary production of Parser::parse_expr_opt (parser.rs:125-187).
\* Ok(NoExpr) is Ok(None).
primary(P) ==
    LET token == parser_peek(P, 0)
        P1 == parser_advance(P)
    IN IF IsPunct(token, "-") \/ IsPunct(token, "&") \/ IsPunct(token, "*")
       THEN Given([operand \in {parse_expr(P1, 10)} |->
                then_ok(operand, Prefix(prefix_operator(token), operand.val))])
       ELSE IF IsKeyword(token, "Range")
       THEN Given([operand \in {parse_expr(P1, 10)} |->
                then_ok(operand, Range(operand.val, NoExpr))])
       ELSE IF token.type = "Identifier" THEN ParseOk(Identifier(token.v), P1)
       ELSE IF token.type = "IntegralNumber" THEN ParseOk(Integer(token.n), P1)
       ELSE IF token.type = "FloatingNumber" THEN ParseOk(Float(token.v), P1)
       ELSE IF IsKeyword(token, "True") THEN ParseOk(Bool(TRUE), P1)
       ELSE IF IsKeyword(token, "False") THEN ParseOk(Bool(FALSE), P1)
       ELSE IF IsPunct(token, "(")
       THEN Given([values \in {parse_comma_separated_exprs(P1)} |->
                IF values.res # "Ok" THEN values
                ELSE then_ok(expect_one(values.p, ")"),
                             IF Len(values.val) = 1 THEN values.val[1]
                             ELSE Tuple(values.val))])
       ELSE IF IsPunct(token, "[") THEN array_loop(P1, <<>>)
       ELSE ParseOk(NoExpr, P)

\* Parser::parse_expr_opt: the primary production, then the operator loop.
parse_expr_opt(P, precedence) ==
    Given([lhs \in {primary(P)} |->
        IF lhs.res # "Ok" \/ lhs.val = NoExpr THEN lhs
        ELSE operator_loop(lhs.p, lhs.val, precedence)])

\* The operator loop of Parser::parse_expr_opt (parser.rs:189-274), from one
\* iteration on.
operator_loop(P, expr, precedence) ==
    LET token == parser_peek(P, 0)
        second == parser_peek(P, 1)
        new_precedence == get_precedence(token)
        P1 == parser_advance(P)
        op == comparison_operator(token, second)
    IN IF \/ new_precedence < precedence
          \/ new_precedence = precedence /\ is_left_associative(token)
       THEN ParseOk(expr, P)
       ELSE IF \/ IsPunct(token, "+") \/ IsPunct(token, "-")
               \/ IsPunct(token, "*") \/ IsPunct(token, "/")
       THEN IF IsPunct(second, "=") THEN ParseOk(expr, P)
            ELSE Given([rhs \in {parse_expr(P1, new_precedence)} |->
                     IF rhs.res # "Ok" THEN rhs
                     ELSE operator_loop(rhs.p,
                                        Infix(arithmetic_operator(token), expr, rhs.val),
                                        precedence)])
       ELSE IF IsPunct(token, ".")
       THEN Given([rhs \in {parse_expr(P1, new_precedence)} |->
                IF rhs.res # "Ok" THEN rhs
                ELSE operator_loop(rhs.p, Place(expr, rhs.val), precedence)])
       ELSE IF \/ IsPunct(token, "<") \/ IsPunct(token, ">")
               \/ IsPunct(token, "!") \/ IsPunct(token, "=")
       THEN IF op = "Stop" THEN ParseOk(expr, P)
            ELSE IF op = "Unexpected"
            THEN ParseErr(UnexpectedToken(token_type(second), P.pos + 1, NoType), P)
            ELSE Given([rhs \in {parse_expr(IF op \in {"Less", "Greater"} THEN P1
                                            ELSE parser_advance(P1),
                                            new_precedence)} |->
                     IF rhs.res # "Ok" THEN rhs
                     ELSE operator_loop(rhs.p, Infix(op, expr, rhs.val), precedence)])
       ELSE IF IsPunct(token, "(")
       THEN Given([args \in {parse_comma_separated_exprs(P1)} |->
                IF args.res # "Ok" THEN args ELSE
            Given([close \in {expect_one(args.p, ")")} |->
                IF close.res # "Ok" THEN close
                ELSE operator_loop(close.p, Call(expr, args.val), precedence)])])
       ELSE ParseOk(expr, P)

-----------------------------------------------------------------------------
(* Items (ast::Item) and their parser. An absent type is 0, an absent      *)
(* expression NoExpr, an absent operator "" and an absent else arm         *)
(* NoArm, a present one SomeArm.                                           *)

NoArm == [arm |-> "None"]
SomeArm(arm_false) == [arm |-> "Some", items |-> arm_false]

ItemLet(name, ty, expr) == [item |-> "Let", name |-> name, ty |-> ty, expr |-> expr]
ItemAssignment(lhs, operator, expr) ==
    [item |-> "Assignment", lhs |-> lhs, operator |-> operator, expr |-> expr]
ItemExpr(expr) == [item |-> "Expr", expr |-> expr]
ItemFunction(name, is_extern, args, body, ty) ==
    [item |-> "Function", name |-> name, is_extern |-> is_extern,
     args |-> args, body |-> body, ty |-> ty]
ItemStruct(name, fields) == [item |-> "Struct", name |-> name, fields |-> fields]
ItemIf(condition, arm_true, arm_false) ==
    [item |-> "If", condition |-> condition, arm_true |-> arm_true,
     arm_false |-> arm_false]
ItemForIn(name, expr, body) ==
    [item |-> "ForIn", name |-> name, expr |-> expr, body |-> body]
ItemLoop(body) == [item |-> "Loop", body |-> body]
ItemBreak == [item |-> "Break"]
ItemYield(expr) == [item |-> "Yield", expr |-> expr]
ItemReturn(expr) == [item |-> "Return", expr |-> expr]

RECURSIVE parse_stmts_loop(_, _)
RECURSIVE parse_fn(_, _)
RECURSIVE parse_if(_)

\* Parser::parse_assign_or_expr
parse_assign_or_expr(P, lhs) ==
    Given([item \in {
            Given([compound \in {match_many(P, <<"+", "=">>)} |->
                IF compound.ok
                THEN Given([expr \in {parse_expr(compound.p, 0)} |->
                         then_ok(expr, ItemAssignment(lhs, "Add", expr.val))])
                ELSE
            Given([plain \in {match_one(P, "=")} |->
                IF plain.ok
                THEN Given([expr \in {parse_expr(plain.p, 0)} |->
                         then_ok(expr, ItemAssignment(lhs, "", expr.val))])
                ELSE ParseOk(ItemExpr(lhs), P)])])} |->
        IF item.res # "Ok" THEN item
        ELSE then_ok(expect_one(item.p, ";"), item.val)])

\* The `name: Type` list of Parser::parse_struct and Parser::parse_fn
\* (parser.rs:313-323, 339-349), from one iteration of the loop on.
RECURSIVE parse_fields_loop(_, _)
parse_fields_loop(P, fields) ==
    Given([identifier \in {match_identifier(P)} |->
        IF ~identifier.ok THEN ParseOk(fields, P) ELSE
    Given([colon \in {expect_one(identifier.p, ":")} |->
        IF colon.res # "Ok" THEN colon ELSE
    Given([ty \in {parse_ty(colon.p)} |->
        IF ty.res # "Ok" THEN ty ELSE
    Given([pushed \in {Append(fields, [name |-> parser_peek(P, 0).v, ty |-> ty.val])} |->
    Given([comma \in {match_one(ty.p, ",")} |->
        IF comma.ok THEN parse_fields_loop(comma.p, pushed)
        ELSE ParseOk(pushed, ty.p)])])])])])

\* Parser::parse_struct
parse_struct(P) ==
    Given([kw \in {expect_keyword(P, "Struct")} |->
        IF kw.res # "Ok" THEN kw ELSE
    Given([identifier \in {expect_identifier(kw.p)} |->
        IF identifier.res # "Ok" THEN identifier ELSE
    Given([open \in {expect_one(identifier.p, "{")} |->
        IF open.res # "Ok" THEN open ELSE
    Given([fields \in {parse_fields_loop(open.p, <<>>)} |->
        IF fields.res # "Ok" THEN fields
        ELSE then_ok(expect_one(fields.p, "}"),
                     ItemStruct(identifier.val.v, fields.val))])])])])

\* A `{ }` body of statements (parser.rs:362-365 and the like).
block(P) ==
    Given([open \in {expect_one(P, "{")} |->
        IF open.res # "Ok" THEN open ELSE
    Given([body \in {parse_stmts_loop(open.p, <<>>)} |->
        IF body.res # "Ok" THEN body
        ELSE then_ok(expect_one(body.p, "}"), body.val)])])

\* Parser::parse_fn
parse_fn(P, is_extern) ==
    Given([ext \in {IF is_extern THEN expect_keyword(P, "Extern")
                    ELSE ParseOk(<<>>, P)} |->
        IF ext.res # "Ok" THEN ext ELSE
    Given([kw \in {expect_keyword(ext.p, "Fn")} |->
        IF kw.res # "Ok" THEN kw ELSE
    Given([identifier \in {expect_identifier(kw.p)} |->
        IF identifier.res # "Ok" THEN identifier ELSE
    Given([open \in {expect_one(identifier.p, "(")} |->
        IF open.res # "Ok" THEN open ELSE
    Given([args \in {parse_fields_loop(open.p, <<>>)} |->
        IF args.res # "Ok" THEN args ELSE
    Given([close \in {expect_one(args.p, ")")} |->
        IF close.res # "Ok" THEN close ELSE
    Given([ty \in {return_ty(close.p)} |->
        IF ty.res # "Ok" THEN ty ELSE
    Given([body \in {IF is_extern THEN then_ok(expect_one(ty.p, ";"), <<>>)
                     ELSE block(ty.p)} |->
        then_ok(body, ItemFunction(identifier.val.v, is_extern, args.val,
                                   body.val, ty.val))])])])])])])])])

\* Parser::parse_let
parse_let(P) ==
    Given([kw \in {expect_keyword(P, "Let")} |->
        IF kw.res # "Ok" THEN kw ELSE
    Given([identifier \in {expect_identifier(kw.p)} |->
        IF identifier.res # "Ok" THEN identifier ELSE
    Given([colon \in {match_one(identifier.p, ":")} |->
    Given([ty \in {IF colon.ok THEN parse_ty(colon.p) ELSE ParseOk(0, colon.p)} |->
        IF ty.res # "Ok" THEN ty ELSE
    Given([equals \in {match_one(ty.p, "=")} |->
    Given([expr \in {IF equals.ok THEN parse_expr(equals.p, 0)
                     ELSE ParseOk(NoExpr, equals.p)} |->
        IF expr.res # "Ok" THEN expr
        ELSE then_ok(expect_one(expr.p, ";"),
                     ItemLet(identifier.val.v, ty.val, expr.val))])])])])])])

\* Parser::parse_for
parse_for(P) ==
    Given([kw \in {expect_keyword(P, "For")} |->
        IF kw.res # "Ok" THEN kw ELSE
    Given([identifier \in {expect_identifier(kw.p)} |->
        IF identifier.res # "Ok" THEN identifier ELSE
    Given([in \in {expect_keyword(identifier.p, "In")} |->
        IF in.res # "Ok" THEN in ELSE
    Given([expr \in {parse_expr(in.p, 0)} |->
        IF expr.res # "Ok" THEN expr ELSE
    Given([body \in {block(expr.p)} |->
        then_ok(body, ItemForIn(identifier.val.v, expr.val, body.val))])])])])])

\* Parser::parse_loop
parse_loop(P) ==
    Given([kw \in {expect_keyword(P, "Loop")} |->
        IF kw.res # "Ok" THEN kw ELSE
    Given([body \in {block(kw.p)} |->
        then_ok(body, ItemLoop(body.val))])])

\* Parser::parse_if
parse_if(P) ==
    Given([kw \in {expect_keyword(P, "If")} |->
        IF kw.res # "Ok" THEN kw ELSE
    Given([condition \in {parse_expr(kw.p, 0)} |->
        IF condition.res # "Ok" THEN condition ELSE
    Given([arm_true \in {block(condition.p)} |->
        IF arm_true.res # "Ok" THEN arm_true ELSE
    Given([else \in {match_keyword(arm_true.p, "Else")} |->
    Given([arm_false \in {
            IF ~else.ok THEN ParseOk(NoArm, else.p)
            ELSE IF IsKeyword(parser_peek(else.p, 0), "If")
            THEN Given([item \in {parse_if(else.p)} |-> then_ok(item, <<item.val>>)])
            ELSE block(else.p)} |->
        then_ok(arm_false,
                ItemIf(condition.val, arm_true.val,
                       IF else.ok THEN SomeArm(arm_false.val) ELSE NoArm))])])])])])

\* Parser::parse_yield
parse_yield(P) ==
    Given([kw \in {expect_keyword(P, "Yield")} |->
        IF kw.res # "Ok" THEN kw ELSE
    Given([value \in {parse_expr(kw.p, 0)} |->
        then_ok(value, ItemYield(value.val))])])

\* Parser::parse_return
parse_return(P) ==
    Given([kw \in {expect_keyword(P, "Return")} |->
        IF kw.res # "Ok" THEN kw ELSE
    Given([value \in {parse_expr(kw.p, 0)} |->
        IF value.res # "Ok" THEN value
        ELSE then_ok(expect_one(value.p, ";"), ItemReturn(value.val))])])

\* The Break arm of Parser::parse_stmts (parser.rs:74-78).
parse_break(P) == then_ok(expect_one(parser_advance(P), ";"), ItemBreak)

\* The `*` and Identifier arms of Parser::parse_stmts (parser.rs:79-90).
parse_expr_stmt(P) ==
    Given([lhs \in {parse_expr_opt(P, 0)} |->
        IF lhs.res # "Ok" THEN lhs
        ELSE IF lhs.val = NoExpr
        THEN IF IsPunct(parser_peek(P, 0), "*")
             THEN ParseErr(Custom("expected expression"), lhs.p)
             ELSE parse_assign_or_expr(lhs.p, Identifier(parser_peek(P, 0).v))
        ELSE parse_assign_or_expr(lhs.p, lhs.val)])

\* Parser::parse_stmts, from one iteration of its loop on.
parse_stmts_loop(P, stmts) ==
    LET token == parser_peek(P, 0)
    IN IF \/ token.type = "Keyword"
             /\ token.v \in {"Let", "Loop", "For", "Extern", "Fn", "If",
                             "Yield", "Return", "Break"}
          \/ IsPunct(token, "*")
          \/ token.type = "Identifier"
       THEN Given([item \in {
                    IF IsKeyword(token, "Let") THEN parse_let(P)
                    ELSE IF IsKeyword(token, "Loop") THEN parse_loop(P)
                    ELSE IF IsKeyword(token, "For") THEN parse_for(P)
                    ELSE IF IsKeyword(token, "Extern") THEN parse_fn(P, TRUE)
                    ELSE IF IsKeyword(token, "Fn") THEN parse_fn(P, FALSE)
                    ELSE IF IsKeyword(token, "If") THEN parse_if(P)
                    ELSE IF IsKeyword(token, "Yield") THEN parse_yield(P)
                    ELSE IF IsKeyword(token, "Return") THEN parse_return(P)
                    ELSE IF IsKeyword(token, "Break") THEN parse_break(P)
                    ELSE parse_expr_stmt(P)} |->
                IF item.res # "Ok" THEN item
                ELSE parse_stmts_loop(item.p, Append(stmts, item.val))])
       ELSE ParseOk(stmts, P)

\* Parser::parse_stmts
parse_stmts(P) == parse_stmts_loop(P, <<>>)

-----------------------------------------------------------------------------
(* The parser as a state machine: one step per iteration of the loop of    *)
(* Parser::parse().                                                        *)

P_(ch) == [type |-> "Punct", v |-> ch, n |-> 0]
K_(keyword) == [type |-> "Keyword", v |-> keyword, n |-> 0]
I_(text) == [type |-> "Identifier", v |-> text, n |-> 0]
N_(val) == [type |-> "IntegralNumber", v |-> "", n |-> val]

\* The tokens of a text given without PunctKind: written compactly, a Punct
\* directly followed by a Punct is Joint; written with spaces, every Punct is
\* Single.
Spaced(bare, compact) ==
    [i \in 1..Len(bare) |->
        [type |-> bare[i].type, v |-> bare[i].v, n |-> bare[i].n,
         kind |-> IF bare[i].type # "Punct" THEN ""
                  ELSE IF compact /\ i < Len(bare) /\ bare[i + 1].type = "Punct"
                  THEN "Joint" ELSE "Single"]]

SeqsUpTo(alphabet, n) == UNION {[1..m -> alphabet] : m \in 0..n}

\* Whatever may stand at the top level.
TopAlphabet ==
    {K_("Fn"), K_("Extern"), K_("Struct"), I_("x"), N_(1),
     P_("("), P_(")"), P_("{"), P_("}"), P_(";")}

\* Operands and the operators with a precedence.
ExprAlphabet == {I_("a"), I_("b"), P_("+"), P_("-"), P_("*"), P_("/"), P_(".")}

\* What a type expression is made of, and a number in its place.
TyAlphabet ==
    {P_("["), P_("]"), N_(4), P_("*"), I_("i32"), I_("bool"), P_("("), P_(")"), P_(",")}

\* fn f() { body ; }
FnWith(body) ==
    <<K_("Fn"), I_("f"), P_("("), P_(")"), P_("{")>> \o body \o <<P_(";"), P_("}")>>

\* extern fn f(a: ty);
ExternWith(ty) ==
    <<K_("Extern"), K_("Fn"), I_("f"), P_("("), I_("a"), P_(":")>> \o ty
        \o <<P_(")"), P_(";")>>

\* extern fn f(a: ty, b: ty);
ExternTwice(ty) ==
    <<K_("Extern"), K_("Fn"), I_("f"), P_("("), I_("a"), P_(":")>> \o ty
        \o <<P_(","), I_("b"), P_(":")>> \o ty \o <<P_(")"), P_(";")>>

\* Type expressions of every shape, nested: [4]i32, []*i32, (i32, *bool),
\* fn(i32) -> bool, [4]S.
TySamples ==
    { <<P_("["), N_(4), P_("]"), I_("i32")>>,
      <<P_("["), P_("]"), P_("*"), I_("i32")>>,
      <<P_("("), I_("i32"), P_(","), P_("*"), I_("bool"), P_(")")>>,
      <<K_("Fn"), P_("("), I_("i32"), P_(")"), P_("-"), P_(">"), I_("bool")>>,
      <<P_("["), N_(4), P_("]"), I_("S")>> }

\* fn f() { body }
NoSemicolon(body) ==
    <<K_("Fn"), I_("f"), P_("("), P_(")"), P_("{")>> \o body \o <<P_("}")>>

\* What may be written between two operands out of < > = ! +, one or two of
\* them.
Spellings ==
    {<<P_(c)>> : c \in {"<", ">", "=", "!", "+"}}
        \cup {<<P_(c), P_(d)>> : c \in {"<", ">", "=", "!", "+"}, d \in {"=", ">", "<"}}

\* One statement of each form that owns no `{ }` body, without its `;`.
Unterminated ==
    { <<K_("Let"), I_("v"), P_("="), N_(1)>>,
      <<K_("Let"), I_("v")>>,
      <<K_("Break")>>,
      <<K_("Return"), I_("a")>>,
      <<K_("Yield"), I_("a")>>,
      <<I_("a"), P_("="), I_("b")>>,
      <<I_("a")>> }

\* `return a;` and `yield a;` with a statement after them (its `;` left out).
Followed ==
    { <<K_("Return"), I_("a"), P_(";"), I_("b")>>,
      <<K_("Yield"), I_("a"), P_(";"), I_("b")>>,
      <<K_("Yield"), I_("a"), P_(";"), K_("Return"), I_("b")>> }

\* fn f() { return expr ; }
Returning(expr) == FnWith(<<K_("Return")>> \o expr)

\* a + f(b), a * f(b), a - f(b) and f(a) + g(b)
CallOperands ==
    { <<I_("a"), P_(op), I_("f"), P_("("), I_("b"), P_(")")>> : op \in {"+", "-", "*"} }
        \cup { <<I_("f"), P_("("), I_("a"), P_(")"), P_("+"),
                 I_("g"), P_("("), I_("b"), P_(")")>> }

\* f(), () and (a,); f(a,) and f(a, b,)
EmptyLists ==
    { <<I_("f"), P_("("), P_(")")>>,
      <<P_("("), P_(")")>>,
      <<P_("("), I_("a"), P_(","), P_(")")>>,
      <<I_("f"), P_("("), I_("a"), P_(","), P_(")")>>,
      <<I_("f"), P_("("), I_("a"), P_(","), I_("b"), P_(","), P_(")")>> }

\* f(a), f(a, b), (a), (a, b), f((a, b)), ((a)) and f(a)(b)
Lists ==
    { <<I_("f"), P_("("), I_("a"), P_(")")>>,
      <<I_("f"), P_("("), I_("a"), P_(","), I_("b"), P_(")")>>,
      <<P_("("), I_("a"), P_(")")>>,
      <<P_("("), I_("a"), P_(","), I_("b"), P_(")")>>,
      <<I_("f"), P_("("), P_("("), I_("a"), P_(","), I_("b"), P_(")"), P_(")")>>,
      <<P_("("), P_("("), I_("a"), P_(")"), P_(")")>>,
      <<I_("f"), P_("("), I_("a"), P_(")"), P_("("), I_("b"), P_(")")>> }

\* Programs that use the rest of the grammar.
ParserSamples ==
    { <<K_("Struct"), I_("S"), P_("{"), I_("a"), P_(":"), I_("i32"), P_(","),
        I_("b"), P_(":"), P_("["), N_(4), P_("]"), I_("i32"), P_("}")>>,
      <<K_("Extern"), K_("Fn"), I_("g"), P_("("), P_(")"), P_(";"),
        K_("Fn"), I_("f"), P_("("), I_("a"), P_(":"), I_("i32"), P_(")"),
        P_("-"), P_(">"), I_("i32"), P_("{"),
        K_("Return"), N_(1), P_("+"), N_(2), P_("*"), N_(3), P_(";"), P_("}")>>,
      <<K_("Fn"), I_("f"), P_("("), P_(")"), P_("{"),
        K_("Let"), I_("v"), P_("="), N_(1), P_("*"), N_(2), P_("+"), N_(3), P_(";"),
        K_("If"), I_("v"), P_("<"), P_("="), N_(2), P_("{"), K_("Break"), P_(";"), P_("}"),
        K_("Else"), P_("{"), I_("v"), P_("+"), P_("="), N_(1), P_(";"), P_("}"),
        K_("Loop"), P_("{"), I_("g"), P_("("), I_("v"), P_(","), N_(1), P_(")"), P_(";"), P_("}"),
        K_("For"), I_("i"), K_("In"), P_("["), N_(1), P_(","), N_(2), P_("]"),
        P_("{"), I_("v"), P_("="), I_("i"), P_(";"), P_("}"),
        P_("}")>>,
      FnWith(<<K_("Return"), N_(1), P_("+"), N_(2), P_("*"), N_(3)>>),
      FnWith(<<K_("Return"), N_(1), P_("*"), N_(2), P_("+"), N_(3)>>),
      FnWith(<<I_("a"), P_("<"), I_("b"), P_(">"), I_("c")>>),
      FnWith(<<I_("a"), P_(">"), I_("b"), P_("<"), I_("c")>>),
      FnWith(<<I_("a"), P_("<"), I_("b"), P_("<"), I_("c")>>),
      FnWith(<<I_("a"), P_(">"), I_("b"), P_(">"), I_("c")>>) }
        \cup {FnWith(<<I_("a")>> \o operator \o <<I_("b")>>) : operator \in Spellings}
        \cup {FnWith(stmt) : stmt \in Unterminated \cup Followed}
        \cup {NoSemicolon(stmt) : stmt \in Unterminated}

BareStreams ==
    SeqsUpTo(TopAlphabet, MaxTop)
        \cup {FnWith(body) : body \in SeqsUpTo(ExprAlphabet, MaxExpr)}
        \cup {ExternWith(ty) : ty \in SeqsUpTo(TyAlphabet, MaxTy)}
        \cup {ExternTwice(ty) : ty \in SeqsUpTo(TyAlphabet, MaxTy) \cup TySamples}
        \cup ParserSamples
        \cup {Returning(expr) : expr \in CallOperands \cup EmptyLists \cup Lists}

TokenStreams == {Spaced(bare, compact) : bare \in BareStreams, compact \in BOOLEAN}

\* Parser::new, on a stream of tokens
InitParser ==
    /\ source = <<>>
    /\ lexer = from_source
    /\ result = [r |-> "None"]
    /\ tokens \in TokenStreams
    /\ parser = [pos |-> 0, arena |-> <<>>]
    /\ items = <<>>
    /\ outcome = [res |-> "Running", error |-> NoError]
    /\ checker = IdleChecker

Running == outcome.res = "Running"

\* items.push(item?): the item is pushed, or parse() returns the error (or
\* does not return at all).
Pushes(item) ==
    /\ parser' = item.p
    /\ IF item.res = "Ok"
       THEN items' = Append(items, item.val) /\ UNCHANGED outcome
       ELSE outcome' = [res |-> item.res, error |-> item.val] /\ UNCHANGED items
    /\ UNCHANGED <<source, lexer, result, tokens, checker>>

\* Parser::parse, the Extern arm
ParseExternFn ==
    /\ Running
    /\ IsKeyword(parser_peek(parser, 0), "Extern")
    /\ Pushes(parse_fn(parser, TRUE))

\* Parser::parse, the Fn arm
ParseFn ==
    /\ Running
    /\ IsKeyword(parser_peek(parser, 0), "Fn")
    /\ Pushes(parse_fn(parser, FALSE))

\* Parser::parse, the Struct arm
ParseStruct ==
    /\ Running
    /\ IsKeyword(parser_peek(parser, 0), "Struct")
    /\ Pushes(parse_struct(parser))

\* Parser::parse, the EndOfSource arm: Ok(items)
ParseEndOfSource ==
    /\ Running
    /\ parser_peek(parser, 0).type = "EndOfSource"
    /\ outcome' = [res |-> "Ok", error |-> NoError]
    /\ UNCHANGED <<source, lexer, result, tokens, parser, items, checker>>

\* What the last arm of Parser::parse does with any other token.
unimplemented(P) == ParsePanic(P)

\* Parser::parse, the last arm
ParseOther ==
    /\ Running
    /\ parser_peek(parser, 0).type # "EndOfSource"
    /\ ~IsKeyword(parser_peek(parser, 0), "Extern")
    /\ ~IsKeyword(parser_peek(parser, 0), "Fn")
    /\ ~IsKeyword(parser_peek(parser, 0), "Struct")
    /\ outcome' = [res |-> unimplemented(parser).res, error |-> unimplemented(parser).val]
    /\ UNCHANGED <<source, lexer, result, tokens, parser, items, checker>>

NextParser ==
    \/ ParseExternFn
    \/ ParseFn
    \/ ParseStruct
    \/ ParseEndOfSource
    \/ ParseOther

SpecParser == InitParser /\ [][NextParser]_vars

-----------------------------------------------------------------------------
(* What is claimed of the parser.                                          *)

\* The tokens without their PunctKind.
Bare ==
    [i \in 1..Len(tokens) |->
        [type |-> tokens[i].type, v |-> tokens[i].v, n |-> tokens[i].n]]

\* parse() has parsed the function `fn f() { body ; }` that tokens holds, body
\* being n tokens long.
ParsedFnWith(n) ==
    /\ parser.pos # 0
    /\ Len(tokens) = n + 7
    /\ Bare = FnWith(SubSeq(Bare, 6, n + 5))

\* The body of the one function parsed.
Body == IF Len(items) = 1 /\ items[1].item = "Function" THEN items[1].body
        ELSE <<"no function">>

\* tokens holds `fn f() { x o1 y o2 z ; }`, which has been parsed.
ParsedChain ==
    /\ ParsedFnWith(5)
    /\ \A i \in {6, 8, 10} : tokens[i].type = "Identifier"
    /\ \A i \in {7, 9} : tokens[i].type = "Punct"

\* The operands and the operators of that chain.
X == Identifier(tokens[6].v)
O1 == tokens[7].v
Y == Identifier(tokens[8].v)
O2 == tokens[9].v
Z == Identifier(tokens[10].v)

\* The expression an infix operator character builds from two operands.
Node(ch, lhs, rhs) ==
    CASE ch = "+" -> Infix("Add", lhs, rhs)
      [] ch = "-" -> Infix("Sub", lhs, rhs)
      [] ch = "*" -> Infix("Mul", lhs, rhs)
      [] ch = "/" -> Infix("Div", lhs, rhs)
      [] ch = "<" -> Infix("Less", lhs, rhs)
      [] ch = ">" -> Infix("Greater", lhs, rhs)
      [] ch = "." -> Place(lhs, rhs)

\* tokens holds `fn f() { return n1 o1 n2 o2 n3 ; }`, which has been parsed.
ParsedReturn(n1, o1, n2, o2, n3) ==
    /\ ParsedFnWith(6)
    /\ SubSeq(Bare, 6, 11) = <<K_("Return"), N_(n1), P_(o1), N_(n2), P_(o2), N_(n3)>>

\* C8: for every token stream parse() ends by returning Ok(items) or
\* Err(ParseError) and never aborts, a top-level token other than extern, fn,
\* struct or EndOfSource and a type that starts with a token that cannot start
\* a type included.
C8_NeverAborts == outcome.res \in {"Running", "Ok", "Err"}

\* C9: for every additive operator a and multiplicative operator m,
\* `x a y m z` parses to a(x, m(y, z)) and `x m y a z` to a(m(x, y), z);
\* `1 + 2 * 3` yields Add(1, Mul(2, 3)) and `1 * 2 + 3` Add(Mul(1, 2), 3).
C9_Precedence ==
    /\ ParsedChain /\ O1 \in {"+", "-"} /\ O2 \in {"*", "/"} =>
          Body = <<ItemExpr(Node(O1, X, Node(O2, Y, Z)))>>
    /\ ParsedChain /\ O1 \in {"*", "/"} /\ O2 \in {"+", "-"} =>
          Body = <<ItemExpr(Node(O2, Node(O1, X, Y), Z))>>
    /\ ParsedReturn(1, "+", 2, "*", 3) =>
          Body = <<ItemReturn(Infix("Add", Integer(1),
                                    Infix("Mul", Integer(2), Integer(3))))>>
    /\ ParsedReturn(1, "*", 2, "+", 3) =>
          Body = <<ItemReturn(Infix("Add", Infix("Mul", Integer(1), Integer(2)),
                                    Integer(3)))>>

\* `b * a - b` has been parsed, into a function whose body is one statement.
C9_Witness ==
    /\ ParsedChain
    /\ <<X, O1, Y, O2, Z>> = <<Identifier("b"), "*", Identifier("a"), "-", Identifier("b")>>
    /\ outcome.res = "Ok"
    /\ Len(Body) = 1
    /\ Body[1].item = "Expr"

\* The operators of one precedence, as the specification's table has them
\* (the comparisons have none, which get_precedence makes 0).
SamePrecedence == {{"+", "-"}, {"*", "/"}, {"."}, {"<", ">"}}

\* The operators the specification calls left-associative.
LeftAssociative == {".", "-"}

\* C10: in a chain of operators of equal precedence the operator about to be
\* consumed decides the grouping: `.` and `-` group to the left, every other
\* operator to the right. So `a.b.c` is Place(Place(a, b), c), `a - b - c`
\* Sub(Sub(a, b), c), `a + b + c` Add(a, Add(b, c)) and `a - b + c`
\* Sub(a, Add(b, c)).
C10_Associativity ==
    ParsedChain /\ (\E class \in SamePrecedence : O1 \in class /\ O2 \in class) =>
        Body = <<ItemExpr(IF O2 \in LeftAssociative THEN Node(O2, Node(O1, X, Y), Z)
                          ELSE Node(O1, X, Node(O2, Y, Z)))>>

\* `a.b.a` has been parsed, or `a - b + a`, into one statement.
C10_Witness ==
    /\ ParsedChain
    /\ <<O1, O2>> \in {<<".", ".">>, <<"-", "+">>}
    /\ outcome.res = "Ok"
    /\ Len(Body) = 1
    /\ Body[1].item = "Expr"

\* No two instances of an arena are structurally equal.
NoDuplicate(arena) ==
    \A i, j \in 1..Len(arena) : TyEq(arena, arena[i], arena[j]) => i = j

\* The length of ty when tokens holds `extern fn f(a: ty, b: ty);`.
TwiceLen == (Len(tokens) - 11) \div 2

\* tokens holds `extern fn f(a: ty, b: ty);`, which has been parsed into a
\* function item.
ParsedTwice ==
    /\ Len(tokens) >= 13
    /\ Bare = ExternTwice(SubSeq(Bare, 7, 6 + TwiceLen))
    /\ Len(items) = 1

\* The parser after the first of the two types, in an arena that was empty.
AfterFirst == parse_ty([pos |-> 6, arena |-> <<>>]).p

\* C11: within one arena a type expression of a shape already parsed yields
\* the instance the first parse yielded and adds no entry to the arena,
\* whatever the shape (array, slice, pointer, tuple, function, nested): the
\* arena never holds two structurally equal instances, and in
\* `extern fn f(a: ty, b: ty);` both parameters have one instance as their type
\* and the second `ty` leaves the arena as the first left it (the Unit of the
\* absent return type is all that follows).
C11_Interning ==
    /\ NoDuplicate(parser.arena)
    /\ ParsedTwice =>
          /\ items[1].args[1].ty = items[1].args[2].ty
          /\ SubSeq(parser.arena, 1, Len(AfterFirst.arena)) = AfterFirst.arena
          /\ Len(parser.arena) <= Len(AfterFirst.arena) + 1
          /\ \A i \in (Len(AfterFirst.arena) + 1)..Len(parser.arena) :
                parser.arena[i] = TyUnit

\* `extern fn f(a: [4]i32, b: [4]i32);` has been parsed: both parameters are
\* of the one Array(4, I32), and the arena holds I32, the array and Unit.
C11_Witness ==
    /\ ParsedTwice
    /\ SubSeq(Bare, 7, 10) = <<P_("["), N_(4), P_("]"), I_("i32")>>
    /\ outcome.res = "Running"
    /\ items[1].args[1].ty = 2
    /\ items[1].args[2].ty = 2
    /\ parser.arena = <<TyI32, TyArray(4, 1), TyUnit>>

\* tokens holds `fn f() { a ... ; }`, parsed into a function of one
\* statement whose left-hand expression is the identifier a alone, so that
\* tokens[7] and tokens[8] are the two tokens directly after it.
StmtOnIdentifier ==
    /\ Len(tokens) >= 8
    /\ ParsedFnWith(Len(tokens) - 7)
    /\ tokens[6].type = "Identifier"
    /\ Len(items) = 1
    /\ Len(Body) = 1
    /\ \/ Body[1].item = "Assignment" /\ Body[1].lhs = Identifier(tokens[6].v)
       \/ Body[1].item = "Expr" /\ Body[1].expr = Identifier(tokens[6].v)

\* C16: a statement is an Assignment with operator Add exactly when the two
\* tokens directly after the left-hand expression are a Joint `+` and `=`, an
\* Assignment with no operator exactly when the next token is `=`, and
\* otherwise an Expr statement after which nothing but the `;` is consumed.
C16_Assignment ==
    StmtOnIdentifier =>
        /\ (Body[1].item = "Assignment" /\ Body[1].operator = "Add")
              <=> /\ IsPunct(tokens[7], "+")
                  /\ tokens[7].kind = "Joint"
                  /\ IsPunct(tokens[8], "=")
        /\ (Body[1].item = "Assignment" /\ Body[1].operator = "")
              <=> IsPunct(tokens[7], "=")
        /\ Body[1].item = "Expr" => IsPunct(tokens[7], ";")

\* C17: a statement that owns no `{ }` body (let, break, return, yield,
\* assignment, expression statement) parses only when a `;` follows it, and
\* the `;` is consumed with it: `fn f() { stmt }` is refused for each such
\* stmt, and in `fn f() { yield a; b; }` and `fn f() { return a; b; }` both
\* statements are parsed.
C17_Semicolon ==
    /\ parser.pos # 0 /\ Bare \in {NoSemicolon(stmt) : stmt \in Unterminated} =>
          Len(items) = 0 /\ outcome.res = "Err"
    /\ parser.pos # 0 /\ Bare \in {FnWith(stmts) : stmts \in Followed} =>
          Len(items) = 1 /\ Len(Body) = 2

\* tokens holds `fn f() { a s b ; }`, s being one or two punctuation tokens
\* the first of which is < > = or !, and parse() has been at it.
OnSpelling ==
    /\ Len(tokens) \in {10, 11}
    /\ ParsedFnWith(Len(tokens) - 7)
    /\ tokens[6].type = "Identifier"
    /\ tokens[7].type = "Punct" /\ tokens[7].v \in {"<", ">", "=", "!"}
    /\ Len(tokens) = 11 => tokens[8].type = "Punct"
    /\ tokens[Len(tokens) - 2].type = "Identifier"

\* The statement parsed is the comparison op of the two operands, every token
\* between them consumed as the operator.
ComparisonOf(op) ==
    /\ Len(items) = 1
    /\ Body = <<ItemExpr(Infix(op, Identifier(tokens[6].v),
                               Identifier(tokens[Len(tokens) - 2].v)))>>

\* The operator is spelled c d, c tagged Joint.
PairedJoint(c, d) ==
    /\ Len(tokens) = 11
    /\ IsPunct(tokens[7], c) /\ tokens[7].kind = "Joint"
    /\ IsPunct(tokens[8], d)

\* The right-hand side was looked for at a token that starts no expression.
MissingExpression ==
    outcome = [res |-> "Err", error |-> Custom("missing expression")]

\* C18 as it is stated: LessEqual, GreaterEqual, Equal and NotEqual are
\* produced exactly for `<=`, `>=`, `==`, `!=` with a Joint first token, two
\* tokens consumed; a `<` or `>` not so paired produces Less or Greater and
\* consumes one token (so that a second punctuation token is where the
\* right-hand side is missed); a bare `=` is left to the statement, which
\* makes it an assignment.
C18_AsStated ==
    OnSpelling =>
        /\ ComparisonOf("LessEqual") <=> PairedJoint("<", "=")
        /\ ComparisonOf("GreaterEqual") <=> PairedJoint(">", "=")
        /\ ComparisonOf("Equal") <=> PairedJoint("=", "=")
        /\ ComparisonOf("NotEqual") <=> PairedJoint("!", "=")
        /\ Len(tokens) = 10 /\ IsPunct(tokens[7], "<") => ComparisonOf("Less")
        /\ Len(tokens) = 10 /\ IsPunct(tokens[7], ">") => ComparisonOf("Greater")
        /\ Len(tokens) = 11 /\ IsPunct(tokens[7], "<") /\ ~PairedJoint("<", "=") =>
              MissingExpression
        /\ Len(tokens) = 11 /\ IsPunct(tokens[7], ">") /\ ~PairedJoint(">", "=") =>
              MissingExpression
        /\ Len(tokens) = 10 /\ IsPunct(tokens[7], "=") =>
              /\ Len(items) = 1
              /\ Body = <<ItemAssignment(Identifier(tokens[6].v), "",
                                         Identifier(tokens[8].v))>>
        /\ Len(tokens) = 11 /\ IsPunct(tokens[7], "=") /\ ~PairedJoint("=", "=") =>
              MissingExpression

\* C18, amended: NotEqual is produced for `<>` too, its `<` tagged Joint, two
\* tokens consumed; LessEqual, GreaterEqual and Equal are produced exactly for
\* `<=`, `>=`, `==` and NotEqual exactly for `!=` and `<>` with a Joint first
\* token; a `<` or `>` paired with neither produces Less or Greater and
\* consumes one token; a bare `=` is left to the statement.
C18_Comparison ==
    OnSpelling =>
        /\ ComparisonOf("LessEqual") <=> PairedJoint("<", "=")
        /\ ComparisonOf("GreaterEqual") <=> PairedJoint(">", "=")
        /\ ComparisonOf("Equal") <=> PairedJoint("=", "=")
        /\ ComparisonOf("NotEqual") <=> PairedJoint("!", "=") \/ PairedJoint("<", ">")
        /\ Len(tokens) = 10 /\ IsPunct(tokens[7], "<") => ComparisonOf("Less")
        /\ Len(tokens) = 10 /\ IsPunct(tokens[7], ">") => ComparisonOf("Greater")
        /\ Len(tokens) = 11 /\ IsPunct(tokens[7], "<")
              /\ ~PairedJoint("<", "=") /\ ~PairedJoint("<", ">") => MissingExpression
        /\ Len(tokens) = 11 /\ IsPunct(tokens[7], ">") /\ ~PairedJoint(">", "=") =>
              MissingExpression
        /\ Len(tokens) = 10 /\ IsPunct(tokens[7], "=") =>
              /\ Len(items) = 1
              /\ Body = <<ItemAssignment(Identifier(tokens[6].v), "",
                                         Identifier(tokens[8].v))>>
        /\ Len(tokens) = 11 /\ IsPunct(tokens[7], "=") /\ ~PairedJoint("=", "=") =>
              MissingExpression

\* `a <> b` has been parsed, written without a space, into NotEqual(a, b).
C18_Witness ==
    /\ OnSpelling
    /\ PairedJoint("<", ">")
    /\ ComparisonOf("NotEqual")

\* parse() has been at the `fn f() { return expr ; }` that tokens holds.
OnReturning(expr) == parser.pos # 0 /\ Bare = Returning(expr)

\* The call of callee with the arguments args, all identifiers.
CallOf(callee, args) == Call(callee, [i \in 1..Len(args) |-> Identifier(args[i])])

\* C25: a call that is the right operand of an infix operator applies to its
\* callee alone: `a + f(b)` parses to Infix(Add, a, Call(f, [b])) and
\* `f(a) + g(b)` to Infix(Add, Call(f, [a]), Call(g, [b])).
C25_CallOperand ==
    /\ OnReturning(<<I_("a"), P_("+"), I_("f"), P_("("), I_("b"), P_(")")>>) =>
          Body = <<ItemReturn(Infix("Add", Identifier("a"),
                                    CallOf(Identifier("f"), <<"b">>)))>>
    /\ OnReturning(<<I_("f"), P_("("), I_("a"), P_(")"), P_("+"),
                     I_("g"), P_("("), I_("b"), P_(")")>>) =>
          Body = <<ItemReturn(Infix("Add", CallOf(Identifier("f"), <<"a">>),
                                    CallOf(Identifier("g"), <<"b">>)))>>

RECURSIVE ListsOf(_)
RECURSIVE ListsIn(_)

\* The argument lists of the calls and the element lists of the tuples of an
\* expression, each with what it is a list of.
ListsOf(expr) ==
    CASE expr.k = "Call" ->
           {[of |-> "Call", len |-> Len(expr.args)]}
               \cup ListsOf(expr.callee)
               \cup UNION {ListsOf(expr.args[i]) : i \in 1..Len(expr.args)}
      [] expr.k = "Tuple" ->
           {[of |-> "Tuple", len |-> Len(expr.values)]}
               \cup UNION {ListsOf(expr.values[i]) : i \in 1..Len(expr.values)}
      [] expr.k = "Array" -> UNION {ListsOf(expr.values[i]) : i \in 1..Len(expr.values)}
      [] expr.k \in {"Infix", "Place"} -> ListsOf(expr.lhs) \cup ListsOf(expr.rhs)
      [] expr.k = "Prefix" -> ListsOf(expr.operand)
      [] expr.k = "Range" -> ListsOf(expr.from) \cup ListsOf(expr.to)
      [] OTHER -> {}

\* Those of every expression of a sequence of items.
ListsIn(its) ==
    UNION { CASE its[i].item \in {"Let", "Expr", "Return", "Yield"} -> ListsOf(its[i].expr)
              [] its[i].item = "Assignment" -> ListsOf(its[i].lhs) \cup ListsOf(its[i].expr)
              [] its[i].item \in {"Function", "Loop"} -> ListsIn(its[i].body)
              [] its[i].item = "ForIn" -> ListsOf(its[i].expr) \cup ListsIn(its[i].body)
              [] its[i].item = "If" ->
                   ListsOf(its[i].condition) \cup ListsIn(its[i].arm_true)
                       \cup (IF its[i].arm_false = NoArm THEN {}
                             ELSE ListsIn(its[i].arm_false.items))
              [] OTHER -> {}
            : i \in 1..Len(its) }

\* C27: every Call of a parsed tree has at least one argument and every Tuple
\* at least two elements: `f()`, `()` and `(a,)` (and `f(a,)`) each make
\* parse fail with ParseError::Custom.
C27_Lists ==
    /\ \A list \in ListsIn(items) : list.len >= (IF list.of = "Call" THEN 1 ELSE 2)
    /\ parser.pos # 0 /\ Bare \in {Returning(expr) : expr \in EmptyLists} =>
          /\ items = <<>>
          /\ outcome = [res |-> "Err", error |-> Custom("missing expression")]

\* `return f();` has been refused for its missing expression.
C27_Witness ==
    /\ OnReturning(<<I_("f"), P_("("), P_(")")>>)
    /\ items = <<>>
    /\ outcome.res = "Err"
    /\ outcome.error.e = "Custom"

-----------------------------------------------------------------------------
(* The type checker (typeck.rs). A Ty is the index of its TyS in the arena *)
(* the checker is given, as in the parser; every one is got from           *)
(* Arena::alloc. A result is [res, ...]: res is "Ok", or "Panic" when the  *)
(* code reaches unimplemented!(), todo!(), unreachable!() or panic!().     *)

TyF32 == [ty |-> "F32"]
TyError == [ty |-> "Error"]
TyUnknown == [ty |-> "Unknown"]
TyRange == [ty |-> "Range"]
TyAny == [ty |-> "Any"]

\* ast::Type, as unify takes it apart.
TypeName(name) == [t |-> "Name", name |-> name]
TypeTuple(types) == [t |-> "Tuple", types |-> types]
TypePointer(ty) == [t |-> "Pointer", ty |-> ty]
TypeArray(len, ty) == [t |-> "Array", len |-> len, ty |-> ty]
TypeSlice(ty) == [t |-> "Slice", ty |-> ty]
TypeUnit == [t |-> "Unit"]
TypeFunction(args_ty, ret_ty) == [t |-> "Function", args_ty |-> args_ty, ret_ty |-> ret_ty]

array_to_slice_either_way(a, b) ==
    \/ a.ty = "Array" /\ b.ty = "Slice"
    \/ a.ty = "Slice" /\ b.ty = "Array"

\* The pattern (TyS::Array(_, ty1), TyS::Slice(ty2)) of is_compatible_to.
array_to_slice(a, b) == a.ty = "Array" /\ b.ty = "Slice"

RECURSIVE is_compatible_to(_, _, _)

is_compatible_to_anything(arena, ty, subty) == TRUE

is_compatible_to_error_as_any(arena, ty, subty) ==
    \/ arena[ty].ty \in {"Any", "Error"}
    \/ arena[subty].ty \in {"Any", "Error"}
    \/ TyEq(arena, arena[ty], arena[subty])

\* is_compatible_to
is_compatible_to(arena, ty, subty) ==
    LET a == arena[ty]
        b == arena[subty]
    IN IF a.ty = "Bool" /\ b.ty = "Bool" THEN TRUE
       ELSE IF a.ty = "U32" /\ b.ty = "U32" THEN TRUE
       ELSE IF a.ty = "I32" /\ b.ty = "I32" THEN TRUE
       ELSE IF a.ty = "F32" /\ b.ty = "F32" THEN TRUE
       ELSE IF a.ty = "Array" /\ b.ty = "Array"
       THEN a.len = b.len /\ is_compatible_to(arena, a.elem, b.elem)
       ELSE IF array_to_slice(a, b)
       THEN is_compatible_to(arena, a.elem, b.elem)
       ELSE IF a.ty = "Slice" /\ b.ty = "Slice"
       THEN is_compatible_to(arena, a.elem, b.elem)
       ELSE IF a.ty = "Unit" /\ b.ty = "Unit" THEN TRUE
       ELSE IF a.ty = "Tuple" /\ b.ty = "Tuple"
       THEN /\ Len(a.elems) = Len(b.elems)
            /\ \A i \in 1..Len(a.elems) : is_compatible_to(arena, a.elems[i], b.elems[i])
       ELSE IF a.ty = "Function" /\ b.ty = "Function"
       THEN IF Len(a.elems) # Len(b.elems) THEN FALSE
            ELSE IF ~is_compatible_to(arena, a.ret, b.ret) THEN FALSE
            ELSE \A i \in 1..Len(a.elems) :
                    is_compatible_to(arena, a.elems[i], b.elems[i])
       ELSE IF a.ty = "Pointer" /\ b.ty = "Pointer"
       THEN is_compatible_to(arena, a.elem, b.elem)
       ELSE IF a.ty = "Other" /\ b.ty = "Other" THEN a.name = b.name
       ELSE IF a.ty = "Any" \/ b.ty = "Any" THEN TRUE
       ELSE FALSE

\* arena.alloc(ty) as a result: the new instance and the arena that holds it.
alloc(arena, ty) ==
    [res |-> "Ok", ty |-> Len(arena) + 1, arena |-> arena_alloc(arena, ty)]

\* A call that does not return.
panic(arena) == [res |-> "Panic", arena |-> arena]

RECURSIVE unify(_, _)
RECURSIVE unify_all(_, _, _)

\* unify
unify(arena, ty) ==
    IF ty.t = "Name"
    THEN IF ty.name = "i32" THEN alloc(arena, TyI32)
         ELSE IF ty.name = "u32" THEN alloc(arena, TyU32)
         ELSE IF ty.name = "bool" THEN alloc(arena, TyBool)
         ELSE panic(arena)
    ELSE IF ty.t = "Tuple"
    THEN Given([types \in {unify_all(arena, ty.types, <<>>)} |->
             IF types.res # "Ok" THEN types
             ELSE alloc(types.arena, TyTuple(types.tys))])
    ELSE IF ty.t = "Pointer"
    THEN Given([inner \in {unify(arena, ty.ty)} |->
             IF inner.res # "Ok" THEN inner
             ELSE alloc(inner.arena, TyPointer(inner.ty))])
    ELSE IF ty.t = "Array"
    THEN Given([inner \in {unify(arena, ty.ty)} |->
             IF inner.res # "Ok" THEN inner
             ELSE alloc(inner.arena, TyArray(ty.len, inner.ty))])
    ELSE IF ty.t = "Slice"
    THEN Given([inner \in {unify(arena, ty.ty)} |->
             IF inner.res # "Ok" THEN inner
             ELSE alloc(inner.arena, TySlice(inner.ty))])
    ELSE IF ty.t = "Unit" THEN alloc(arena, TyUnit)
    ELSE Given([args \in {unify_all(arena, ty.args_ty, <<>>)} |->
             IF args.res # "Ok" THEN args ELSE
         Given([ret \in {unify(args.arena, ty.ret_ty)} |->
             IF ret.res # "Ok" THEN ret
             ELSE alloc(ret.arena, TyFunction(args.tys, ret.ty))])])

\* types.iter().map(|it| unify(arena, it)).collect(), from one type on:
\* [res, tys, arena]
unify_all(arena, types, tys) ==
    IF types = <<>> THEN [res |-> "Ok", tys |-> tys, arena |-> arena]
    ELSE Given([ty \in {unify(arena, Head(types))} |->
             IF ty.res # "Ok" THEN ty
             ELSE unify_all(ty.arena, Tail(types), Append(tys, ty.ty))])

\* ast::Expression::Index and Expression::Error
Index(lhs, rhs) == [k |-> "Index", lhs |-> lhs, rhs |-> rhs]
ExprError == [k |-> "Error"]

\* What deduce_expr_ty returns, with the arena it leaves.
typed(ty, expr, arena) == [res |-> "Ok", ty |-> ty, expr |-> expr, arena |-> arena]

\* TypedExpression
TypedExpression(r) == [ty |-> r.ty, expr |-> r.expr]

\* TypedExpression { expr: Expression::Error, ty: arena.alloc(ty) }
error_expr(arena, ty) ==
    Given([made \in {alloc(arena, ty)} |-> typed(made.ty, ExprError, made.arena)])

prefix_ty_deref_as_ref(op, inner) ==
    IF op \in {"Ref", "Deref"} THEN alloc(inner.arena, TyPointer(inner.ty))
    ELSE [res |-> "Ok", ty |-> inner.ty, arena |-> inner.arena]

\* The `match op` of the Prefix arm of deduce_expr_ty (typeck.rs:154-158), on
\* the typed operand.
prefix_ty(op, inner) ==
    IF op = "Ref" THEN alloc(inner.arena, TyPointer(inner.ty))
    ELSE IF op = "Deref" THEN panic(inner.arena)
    ELSE [res |-> "Ok", ty |-> inner.ty, arena |-> inner.arena]

RECURSIVE deduce_expr_ty(_, _, _)
RECURSIVE deduce_array_rest(_, _, _, _, _)
RECURSIVE deduce_call_args(_, _, _, _, _, _)
RECURSIVE deduce_tuple(_, _, _, _, _)

\* The loop over items.iter().skip(1) of the Array arm (typeck.rs:191-203).
deduce_array_rest(items_, values, item_ty, arena, locals) ==
    IF Len(values) = Len(items_)
    THEN Given([made \in {alloc(arena, TyArray(Len(items_), item_ty))} |->
             typed(made.ty, Array(values), made.arena)])
    ELSE Given([expr \in {deduce_expr_ty(items_[Len(values) + 1], arena, locals)} |->
             IF expr.res # "Ok" THEN expr
             ELSE IF ~is_compatible_to(expr.arena, expr.ty, item_ty)
             THEN error_expr(expr.arena, TyError)
             ELSE deduce_array_rest(items_, Append(values, TypedExpression(expr)),
                                    item_ty, expr.arena, locals)])

\* The loop over args.iter().zip(args_ty) of the Call arm (typeck.rs:226-242).
deduce_call_args(callee, args, callee_ty, values, arena, locals) ==
    IF Len(values) = Len(args) \/ Len(values) = Len(arena[callee_ty].elems)
    THEN typed(arena[callee_ty].ret, Call(callee, values), arena)
    ELSE Given([arg \in {deduce_expr_ty(args[Len(values) + 1], arena, locals)} |->
             IF arg.res # "Ok" THEN arg
             ELSE IF ~is_compatible_to(arg.arena, arg.ty,
                                       arena[callee_ty].elems[Len(values) + 1])
             THEN error_expr(arg.arena, TyError)
             ELSE deduce_call_args(callee, args, callee_ty,
                                   Append(values, TypedExpression(arg)),
                                   arg.arena, locals)])

\* The loop of the Tuple arm (typeck.rs:269-275).
deduce_tuple(items_, values, types, arena, locals) ==
    IF Len(values) = Len(items_)
    THEN Given([made \in {alloc(arena, TyTuple(types))} |->
             typed(made.ty, Tuple(values), made.arena)])
    ELSE Given([expr \in {deduce_expr_ty(items_[Len(values) + 1], arena, locals)} |->
             IF expr.res # "Ok" THEN expr
             ELSE deduce_tuple(items_, Append(values, TypedExpression(expr)),
                               Append(types, expr.ty), expr.arena, locals)])

\* The type of the callee of the Call arm (typeck.rs:209-216): the built-in
\* debug is Function([&TyS::Any], &TyS::Unit), whose two constants are given
\* a place in the arena here.
callee_ty_of(ident, arena, locals) ==
    IF ident = "debug"
    THEN Given([any \in {alloc(arena, TyAny)} |->
         Given([unit \in {alloc(any.arena, TyUnit)} |->
             alloc(unit.arena, TyFunction(<<any.ty>>, unit.ty))])])
    ELSE IF ident \in DOMAIN locals
    THEN [res |-> "Ok", ty |-> locals[ident], arena |-> arena]
    ELSE panic(arena)

\* deduce_expr_ty: [res, ty, expr, arena]
deduce_expr_ty(expr, arena, locals) ==
    IF expr.k = "Integer"
    THEN Given([made \in {alloc(arena, TyI32)} |->
             typed(made.ty, Integer(expr.val), made.arena)])
    ELSE IF expr.k = "Float"
    THEN Given([made \in {alloc(arena, TyF32)} |->
             typed(made.ty, Float(expr.val), made.arena)])
    ELSE IF expr.k = "Bool"
    THEN Given([made \in {alloc(arena, TyBool)} |->
             typed(made.ty, Bool(expr.val), made.arena)])
    ELSE IF expr.k = "Infix"
    THEN Given([lhs \in {deduce_expr_ty(expr.lhs, arena, locals)} |->
             IF lhs.res # "Ok" THEN lhs ELSE
         Given([rhs \in {deduce_expr_ty(expr.rhs, lhs.arena, locals)} |->
             IF rhs.res # "Ok" THEN rhs ELSE
         Given([ty \in {
                 IF ~is_compatible_to(rhs.arena, lhs.ty, rhs.ty)
                 THEN alloc(rhs.arena, TyError)
                 ELSE IF expr.op \in {"Less", "LessEqual", "Greater", "GreaterEqual",
                                      "Equal", "NotEqual"}
                 THEN alloc(rhs.arena, TyBool)
                 ELSE IF expr.op \in {"Add", "Sub", "Mul", "Div"}
                 THEN [res |-> "Ok", ty |-> lhs.ty, arena |-> rhs.arena]
                 ELSE panic(rhs.arena)} |->
             IF ty.res # "Ok" THEN ty
             ELSE typed(ty.ty,
                        Infix(expr.op, TypedExpression(lhs), TypedExpression(rhs)),
                        ty.arena)])])])
    ELSE IF expr.k = "Prefix"
    THEN Given([inner \in {deduce_expr_ty(expr.operand, arena, locals)} |->
             IF inner.res # "Ok" THEN inner ELSE
         Given([ty \in {prefix_ty(expr.op, inner)} |->
             IF ty.res # "Ok" THEN ty
             ELSE typed(ty.ty, Prefix(expr.op, TypedExpression(inner)), ty.arena)])])
    ELSE IF expr.k = "Identifier"
    THEN IF expr.name \in DOMAIN locals
         THEN typed(locals[expr.name], Identifier(expr.name), arena)
         ELSE Given([made \in {alloc(arena, TyError)} |->
                  typed(made.ty, Identifier(expr.name), made.arena)])
    ELSE IF expr.k = "Place" THEN panic(arena)
    ELSE IF expr.k = "Array"
    THEN IF expr.values = <<>> THEN error_expr(arena, TyUnknown)
         ELSE Given([first \in {deduce_expr_ty(expr.values[1], arena, locals)} |->
                  IF first.res # "Ok" THEN first
                  ELSE deduce_array_rest(expr.values, <<TypedExpression(first)>>,
                                         first.ty, first.arena, locals)])
    ELSE IF expr.k = "Call"
    THEN Given([callee \in {deduce_expr_ty(expr.callee, arena, locals)} |->
             IF callee.res # "Ok" THEN callee
             ELSE IF callee.expr.k # "Identifier" THEN panic(callee.arena) ELSE
         Given([callee_ty \in {callee_ty_of(callee.expr.name, callee.arena, locals)} |->
             IF callee_ty.res # "Ok" THEN callee_ty
             ELSE IF callee_ty.arena[callee_ty.ty].ty # "Function"
             THEN error_expr(callee_ty.arena, TyError)
             ELSE deduce_call_args(TypedExpression(callee), expr.args, callee_ty.ty,
                                   <<>>, callee_ty.arena, locals)])])
    ELSE IF expr.k = "Range"
    THEN IF expr.to = NoExpr THEN panic(arena)
         ELSE Given([from \in {deduce_expr_ty(expr.from, arena, locals)} |->
                  IF from.res # "Ok" THEN from ELSE
              Given([to \in {deduce_expr_ty(expr.to, from.arena, locals)} |->
                  IF to.res # "Ok" THEN to
                  ELSE IF ~is_compatible_to(to.arena, from.ty, to.ty)
                  THEN error_expr(to.arena, TyError)
                  ELSE Given([made \in {alloc(to.arena, TyRange)} |->
                           typed(made.ty,
                                 Range(TypedExpression(from), TypedExpression(to)),
                                 made.arena)])])])
    ELSE IF expr.k = "Tuple" THEN deduce_tuple(expr.values, <<>>, <<>>, arena, locals)
    ELSE IF expr.k = "Index"
    THEN Given([lhs \in {deduce_expr_ty(expr.lhs, arena, locals)} |->
             IF lhs.res # "Ok" THEN lhs ELSE
         Given([rhs \in {deduce_expr_ty(expr.rhs, lhs.arena, locals)} |->
             IF rhs.res # "Ok" THEN rhs ELSE
         Given([ty \in {
                 IF /\ rhs.arena[lhs.ty].ty \in {"Array", "Slice"}
                    /\ rhs.arena[rhs.ty].ty = "I32"
                 THEN [res |-> "Ok", ty |-> rhs.arena[lhs.ty].elem, arena |-> rhs.arena]
                 ELSE alloc(rhs.arena, TyError)} |->
             typed(ty.ty, Index(TypedExpression(lhs), TypedExpression(rhs)),
                   ty.arena)])])])
    ELSE panic(arena)

\* The items of the type checker that the parser's have no like of, and the
\* absent declared type of a let.
ItemExpression(expr) == [item |-> "Expression", expr |-> expr]
ItemBlock(body) == [item |-> "Block", body |-> body]
TypeNone == [t |-> "None"]

insert_alone(locals, name, ty) == [n \in {name} |-> ty]

\* locals.insert(name, ty)
insert(locals, name, ty) ==
    [n \in DOMAIN locals \cup {name} |-> IF n = name THEN ty ELSE locals[n]]

\* What one iteration of the loop of infer_types ends in: an item to push,
\* `continue`, or no return at all.
lowered(item, arena, locals) ==
    [res |-> "Ok", item |-> item, arena |-> arena, locals |-> locals]
continue(arena, locals) == [res |-> "Continue", arena |-> arena, locals |-> locals]

RECURSIVE infer_types(_, _, _, _)
RECURSIVE infer_types_from(_, _, _, _, _)
RECURSIVE bind_params(_, _, _, _)
RECURSIVE typed_args(_, _, _)

bind_params_unbound(params, args, arena, locals) ==
    IF params = <<>>
    THEN [res |-> "Ok", tys |-> args, arena |-> arena, locals |-> locals]
    ELSE Given([ty \in {unify(arena, Head(params).ty)} |->
             IF ty.res # "Ok" THEN ty
             ELSE bind_params(Tail(params), Append(args, ty.ty), ty.arena, locals)])

\* The loop over params of the Function arm (typeck.rs:355-360), from one
\* parameter on: [res, tys, arena, locals]
bind_params(params, args, arena, locals) ==
    IF params = <<>>
    THEN [res |-> "Ok", tys |-> args, arena |-> arena, locals |-> locals]
    ELSE Given([ty \in {unify(arena, Head(params).ty)} |->
             IF ty.res # "Ok" THEN ty ELSE
         Given([bound \in {unify(ty.arena, Head(params).ty)} |->
             IF bound.res # "Ok" THEN bound
             ELSE bind_params(Tail(params), Append(args, ty.ty), bound.arena,
                              insert(locals, Head(params).name, bound.ty))])])

\* params.iter().map(|it| Argument { .. }).collect() (typeck.rs:370), from
\* one parameter on: [res, args, arena]
typed_args(params, args, arena) ==
    IF params = <<>> THEN [res |-> "Ok", args |-> args, arena |-> arena]
    ELSE Given([ty \in {unify(arena, Head(params).ty)} |->
             IF ty.res # "Ok" THEN ty
             ELSE typed_args(Tail(params),
                             Append(args, [name |-> Head(params).name, ty |-> ty.ty]),
                             ty.arena)])

\* The body of the loop of infer_types for one item; expected_ret_ty is 0
\* for None.
infer_item(item, arena, locals, expected_ret_ty) ==
    IF item.item = "Let"
    THEN IF item.expr = NoExpr THEN continue(arena, locals) ELSE
         Given([expr \in {deduce_expr_ty(item.expr, arena, locals)} |->
             IF expr.res # "Ok" THEN expr ELSE
         Given([ty \in {IF item.ty = TypeNone
                        THEN [res |-> "Ok", ty |-> expr.ty, arena |-> expr.arena]
                        ELSE unify(expr.arena, item.ty)} |->
             IF ty.res # "Ok" THEN ty
             ELSE IF item.ty # TypeNone /\ ~is_compatible_to(ty.arena, ty.ty, expr.ty)
             THEN continue(ty.arena, locals)
             ELSE lowered(ItemLet(item.name, ty.ty, TypedExpression(expr)), ty.arena,
                          insert(locals, item.name, ty.ty))])])
    ELSE IF item.item = "Assignment"
    THEN Given([lhs \in {deduce_expr_ty(item.lhs, arena, locals)} |->
             IF lhs.res # "Ok" THEN lhs ELSE
         Given([rhs \in {deduce_expr_ty(item.expr, lhs.arena, locals)} |->
             IF rhs.res # "Ok" THEN rhs
             ELSE IF ~is_compatible_to(rhs.arena, lhs.ty, rhs.ty)
             THEN continue(rhs.arena, locals)
             ELSE lowered(ItemAssignment(TypedExpression(lhs), item.operator,
                                         TypedExpression(rhs)),
                          rhs.arena, locals)])])
    ELSE IF item.item = "Expr"
    THEN Given([expr \in {deduce_expr_ty(item.expr, arena, locals)} |->
             IF expr.res # "Ok" THEN expr
             ELSE lowered(ItemExpression(TypedExpression(expr)), expr.arena, locals)])
    ELSE IF item.item = "Function"
    THEN Given([params \in {bind_params(item.args, <<>>, arena, locals)} |->
             IF params.res # "Ok" THEN params ELSE
         Given([ret \in {unify(params.arena, item.ty)} |->
             IF ret.res # "Ok" THEN ret ELSE
         Given([func_ty \in {alloc(ret.arena, TyFunction(params.tys, ret.ty))} |->
         Given([ret_ty \in {unify(func_ty.arena, item.ty)} |->
             IF ret_ty.res # "Ok" THEN ret_ty ELSE
         Given([body \in {infer_types(item.body, ret_ty.arena,
                                       insert(params.locals, item.name, func_ty.ty),
                                       ret_ty.ty)} |->
             IF body.res # "Ok" THEN body ELSE
         Given([args \in {typed_args(item.args, <<>>, body.arena)} |->
             IF args.res # "Ok" THEN args ELSE
         Given([ty \in {unify(args.arena, item.ty)} |->
             IF ty.res # "Ok" THEN ty
             ELSE lowered(ItemFunction(item.name, FALSE, args.args, body.items, ty.ty),
                          ty.arena, body.locals)])])])])])])])
    ELSE IF item.item = "Struct" THEN continue(arena, locals)
    ELSE IF item.item = "If"
    THEN Given([cond \in {deduce_expr_ty(item.condition, arena, locals)} |->
             IF cond.res # "Ok" THEN cond ELSE
         Given([bool \in {alloc(cond.arena, TyBool)} |->
             IF ~is_compatible_to(bool.arena, cond.ty, bool.ty)
             THEN continue(bool.arena, locals) ELSE
         Given([arm_true \in {infer_types(item.arm_true, bool.arena, locals,
                                           expected_ret_ty)} |->
             IF arm_true.res # "Ok" THEN arm_true
             ELSE IF item.arm_false = NoArm
             THEN lowered(ItemIf(TypedExpression(cond), arm_true.items, NoArm),
                          arm_true.arena, arm_true.locals) ELSE
         Given([arm_false \in {infer_types(item.arm_false.items, arm_true.arena,
                                            arm_true.locals, expected_ret_ty)} |->
             IF arm_false.res # "Ok" THEN arm_false
             ELSE lowered(ItemIf(TypedExpression(cond), arm_true.items,
                                 SomeArm(arm_false.items)),
                          arm_false.arena, arm_false.locals)])])])])
    ELSE IF item.item = "ForIn"
    THEN Given([expr \in {deduce_expr_ty(item.expr, arena, locals)} |->
             IF expr.res # "Ok" THEN expr
             ELSE IF expr.arena[expr.ty].ty \notin {"Array", "Slice", "Range"}
             THEN continue(expr.arena, locals) ELSE
         Given([i32 \in {alloc(expr.arena, TyI32)} |->
         Given([body \in {infer_types(item.body, i32.arena,
                                       insert(locals, item.name, i32.ty),
                                       expected_ret_ty)} |->
             IF body.res # "Ok" THEN body
             ELSE lowered(ItemForIn(item.name, TypedExpression(expr), body.items),
                          body.arena, body.locals)])])])
    ELSE IF item.item = "Loop"
    THEN Given([body \in {infer_types(item.body, arena, locals, expected_ret_ty)} |->
             IF body.res # "Ok" THEN body
             ELSE lowered(ItemLoop(body.items), body.arena, body.locals)])
    ELSE IF item.item = "Return"
    THEN IF expected_ret_ty = 0 THEN panic(arena) ELSE
         Given([expr \in {deduce_expr_ty(item.expr, arena, locals)} |->
             IF expr.res # "Ok" THEN expr
             ELSE IF ~is_compatible_to(expr.arena, expr.ty, expected_ret_ty)
             THEN continue(expr.arena, locals)
             ELSE lowered(ItemReturn(TypedExpression(expr)), expr.arena, locals)])
    ELSE IF item.item = "Break" THEN lowered(ItemBreak, arena, locals)
    ELSE IF item.item = "Yield" THEN panic(arena)
    ELSE Given([body \in {infer_types(item.body, arena, locals, expected_ret_ty)} |->
             panic(body.arena)])

\* The loop of infer_types, from one item on: [res, items, arena, locals]
infer_types_from(rest, lowered_items, arena, locals, expected_ret_ty) ==
    IF rest = <<>>
    THEN [res |-> "Ok", items |-> lowered_items, arena |-> arena, locals |-> locals]
    ELSE Given([item \in {infer_item(Head(rest), arena, locals, expected_ret_ty)} |->
             IF item.res = "Panic" THEN item
             ELSE infer_types_from(Tail(rest),
                                   IF item.res = "Ok"
                                   THEN Append(lowered_items, item.item)
                                   ELSE lowered_items,
                                   item.arena, item.locals, expected_ret_ty)])

\* infer_types
infer_types(items_, arena, locals, expected_ret_ty) ==
    infer_types_from(items_, <<>>, arena, locals, expected_ret_ty)

-----------------------------------------------------------------------------
(* The type checker as a state machine: one step per iteration of the loop *)
(* of the infer_types(k, &arena, &mut locals, None) of main, k being what  *)
(* parse() returned: functions and structs.                                *)

I32_ == TypeName("i32")
BOOL_ == TypeName("bool")

\* Declared types nested up to depth.
RECURSIVE TypesUpTo(_)
TypesUpTo(depth) ==
    IF depth = 0 THEN {I32_, BOOL_}
    ELSE TypesUpTo(depth - 1)
            \cup {TypeArray(len, ty) : len \in {2, 3}, ty \in TypesUpTo(depth - 1)}
            \cup {TypeSlice(ty) : ty \in TypesUpTo(depth - 1)}
            \cup {TypePointer(ty) : ty \in TypesUpTo(depth - 1)}

\* fn name(params) -> ty { body }
Fn(name, params, ty, body) == ItemFunction(name, FALSE, params, body, ty)

Param(name, ty) == [name |-> name, ty |-> ty]

\* fn f(p: from) { let v: to = p; }
LetFrom(from, to) ==
    <<Fn("f", <<Param("p", from)>>, TypeUnit,
         <<ItemLet("v", to, Identifier("p"))>>)>>

\* Statements of every kind infer_types tells apart, x and q never declared.
StmtAlphabet ==
    { ItemLet("v", TypeNone, NoExpr),
      ItemLet("v", BOOL_, Integer(1)),
      ItemLet("v", TypeNone, Integer(1)),
      ItemLet("w", I32_, Identifier("v")),
      ItemLet("w", TypeNone, Prefix("Ref", Identifier("v"))),
      ItemIf(Integer(1), <<ItemLet("t", TypeNone, Integer(1))>>,
             SomeArm(<<ItemLet("e", TypeNone, Integer(2))>>)),
      ItemIf(Identifier("q"), <<ItemLet("t", TypeNone, Integer(1))>>, NoArm),
      ItemIf(Infix("Less", Identifier("v"), Integer(2)),
             <<ItemLet("t", TypeNone, Integer(1))>>,
             SomeArm(<<ItemLet("e", TypeNone, Integer(2))>>)),
      ItemAssignment(Identifier("v"), "", Identifier("t")),
      ItemExpr(Prefix("Negate", Identifier("v"))),
      ItemExpr(Prefix("Deref", Identifier("w"))),
      ItemReturn(Identifier("v")),
      ItemBreak }

\* Programs that use the rest of the checker.
TypeckSamples ==
    { <<Fn("add", <<Param("a", I32_), Param("b", I32_)>>, I32_,
           <<ItemReturn(Infix("Add", Identifier("a"), Identifier("b")))>>)>>,
      <<ItemStruct("S", <<Param("a", 1)>>),
        ItemFunction("g", TRUE, <<Param("a", I32_)>>, <<>>, TypeUnit),
        Fn("f", <<>>, TypeUnit,
           << ItemLet("v", TypeArray(2, I32_), Array(<<Integer(1), Integer(2)>>)),
              ItemLet("s", TypeSlice(I32_), Array(<<Integer(1), Integer(2)>>)),
              ItemLet("o", TypeSlice(BOOL_), Array(<<Integer(1)>>)),
              ItemLet("u", TypeNone, Array(<<>>)),
              ItemLet("m", TypeNone, Array(<<Integer(1), Bool(TRUE)>>)),
              ItemLet("h", TypeNone, Float("1.5")),
              ItemLet("k", I32_, Float("1.5")),
              ItemForIn("i", Identifier("v"),
                        <<ItemExpr(Index(Identifier("v"), Identifier("i")))>>),
              ItemForIn("j", Range(Integer(1), Integer(2)),
                        <<ItemExpr(Call(Identifier("g"), <<Identifier("j")>>))>>),
              ItemForIn("n", Integer(1), <<ItemBreak>>),
              ItemLoop(<<ItemExpr(Call(Identifier("debug"),
                                       <<Tuple(<<Integer(1), Bool(TRUE)>>)>>)),
                         ItemBreak>>) >>)>>,
      <<Fn("f", <<Param("p", TypeTuple(<<I32_, BOOL_>>)),
                  Param("c", TypeFunction(<<I32_>>, BOOL_)),
                  Param("z", TypeName("u32"))>>, TypeUnit, <<>>)>>,
      <<Fn("f", <<>>, TypeUnit, <<ItemYield(Integer(1))>>)>>,
      <<Fn("f", <<>>, TypeUnit, <<ItemBlock(<<>>)>>)>>,
      <<Fn("f", <<Param("p", TypeName("S"))>>, TypeUnit, <<>>)>>,
      <<Fn("f", <<>>, TypeUnit, <<ItemExpr(Place(Identifier("a"), Identifier("b")))>>)>>,
      <<Fn("f", <<>>, TypeUnit, <<ItemExpr(Call(Identifier("h"), <<Integer(1)>>))>>)>>,
      <<Fn("f", <<>>, TypeUnit, <<ItemExpr(Range(Integer(1), NoExpr))>>)>> }

\* fn r(a: i32) -> i32 { return r(a); }
Recursive ==
    <<Fn("r", <<Param("a", I32_)>>, I32_,
         <<ItemReturn(Call(Identifier("r"), <<Identifier("a")>>))>>)>>

\* fn f() -> i32 { return g(1); } fn g(a: i32) -> i32 { return a; }
Forward ==
    <<Fn("f", <<>>, I32_, <<ItemReturn(Call(Identifier("g"), <<Integer(1)>>))>>),
      Fn("g", <<Param("a", I32_)>>, I32_, <<ItemReturn(Identifier("a"))>>)>>

\* The same two functions, the callee first.
Backward == <<Forward[2], Forward[1]>>

CallSamples == {Recursive, Forward, Backward}

\* fn f(p: i32) { if p < 1 { let t = 1; } else { let e = true; }
\*                loop { let l = 1.5; break; } for i in 1..2 { let b = &i; }
\*                let z = (t, e, l, b, i, p); }
\* fn g() { let y = p; let x = z; }
Scopes ==
    <<Fn("f", <<Param("p", I32_)>>, TypeUnit,
         << ItemIf(Infix("Less", Identifier("p"), Integer(1)),
                   <<ItemLet("t", TypeNone, Integer(1))>>,
                   SomeArm(<<ItemLet("e", TypeNone, Bool(TRUE))>>)),
            ItemLoop(<<ItemLet("l", TypeNone, Float("1.5")), ItemBreak>>),
            ItemForIn("i", Range(Integer(1), Integer(2)),
                      <<ItemLet("b", TypeNone, Prefix("Ref", Identifier("i")))>>),
            ItemLet("z", TypeNone,
                    Tuple(<<Identifier("t"), Identifier("e"), Identifier("l"),
                            Identifier("b"), Identifier("i"), Identifier("p")>>)) >>),
      Fn("g", <<>>, TypeUnit,
         <<ItemLet("y", TypeNone, Identifier("p")), ItemLet("x", TypeNone, Identifier("z"))>>)>>

\* fn f() -> ty { if true { loop { for i in 1..2 { return 1; return true; }
\*                               return 2; } return false; }
\*                else { return 3; } }
ReturnsIn(ty) ==
    <<Fn("f", <<>>, ty,
         <<ItemIf(Bool(TRUE),
                  << ItemLoop(<< ItemForIn("i", Range(Integer(1), Integer(2)),
                                           <<ItemReturn(Integer(1)), ItemReturn(Bool(TRUE))>>),
                                 ItemReturn(Integer(2)) >>),
                     ItemReturn(Bool(FALSE)) >>,
                  SomeArm(<<ItemReturn(Integer(3))>>))>>)>>

\* A sequence handed to infer_types with no function around its return, as
\* main's call with None allows: `return 1;`
TopReturn == <<ItemReturn(Integer(1))>>

ReturnSamples == {ReturnsIn(I32_), ReturnsIn(BOOL_), TopReturn}

\* Lets of an initializer that does not type, q never declared:
\* `let v = q;`, `let v = [];`, `let v = 1 + true;`, `let u: i32 = q;`, and
\* `let w = v;`
NotTyped ==
    { ItemLet("v", TypeNone, Identifier("q")),
      ItemLet("v", TypeNone, Array(<<>>)),
      ItemLet("v", TypeNone, Infix("Add", Integer(1), Bool(TRUE))),
      ItemLet("u", I32_, Identifier("q")),
      ItemLet("w", TypeNone, Identifier("v")) }

\* fn e() { body }
LetsOf(body) == <<Fn("e", <<>>, TypeUnit, body)>>

\* One such let, or two.
LetSamples ==
    {LetsOf(<<first>>) : first \in NotTyped}
        \cup {LetsOf(<<first, second>>) : first \in NotTyped, second \in NotTyped}

Programs ==
    {LetFrom(from, to) : from \in TypesUpTo(MaxTypeDepth), to \in TypesUpTo(MaxTypeDepth)}
        \cup {<<Fn("f", <<>>, I32_, body)>> : body \in SeqsUpTo(StmtAlphabet, MaxStmts)}
        \cup TypeckSamples
        \cup CallSamples
        \cup {Scopes}
        \cup ReturnSamples
        \cup LetSamples

\* main: parse() has returned Ok(k), and infer_types is called on k with a
\* new arena and no locals.
InitTypeck ==
    /\ source = <<>>
    /\ lexer = from_source
    /\ result = [r |-> "None"]
    /\ tokens = NoTokens
    /\ parser = IdleParser
    /\ items \in Programs
    /\ outcome = [res |-> "Ok", error |-> NoError]
    /\ checker = [arena |-> <<>>, locals |-> NoLocals, lowered_items |-> <<>>,
                  at |-> 0, res |-> "Running"]

\* lowered_items.push(item), or continue, or the call does not return.
Lowers(item) ==
    /\ checker' =
          IF item.res = "Panic"
          THEN [checker EXCEPT !.res = "Panic", !.arena = item.arena]
          ELSE [arena |-> item.arena, locals |-> item.locals,
                lowered_items |-> IF item.res = "Ok"
                                  THEN Append(checker.lowered_items, item.item)
                                  ELSE checker.lowered_items,
                at |-> checker.at + 1, res |-> "Running"]
    /\ UNCHANGED <<source, lexer, result, tokens, parser, items, outcome>>

\* One iteration of `for item in items.iter()` in the call main makes.
InferItem ==
    /\ checker.res = "Running"
    /\ checker.at < Len(items)
    /\ Lowers(infer_item(items[checker.at + 1], checker.arena, checker.locals, 0))

\* The loop is over: infer_types returns lowered_items.
InferReturn ==
    /\ checker.res = "Running"
    /\ checker.at = Len(items)
    /\ checker' = [checker EXCEPT !.res = "Done"]
    /\ UNCHANGED <<source, lexer, result, tokens, parser, items, outcome>>

NextTypeck ==
    \/ InferItem
    \/ InferReturn

SpecTypeck == InitTypeck /\ [][NextTypeck]_vars

-----------------------------------------------------------------------------
(* What is claimed of the type checker.                                    *)

RECURSIVE Shape(_, _)
RECURSIVE Outline(_, _)

\* The type the instance ty of an arena stands for: its TyS, with the shape
\* of each type it refers to in the place of the reference.
Shape(arena, ty) ==
    LET t == arena[ty]
    IN CASE t.ty = "Array" -> TyArray(t.len, Shape(arena, t.elem))
         [] t.ty \in {"Slice", "Pointer"} -> [ty |-> t.ty, elem |-> Shape(arena, t.elem)]
         [] t.ty = "Tuple" ->
              TyTuple([i \in 1..Len(t.elems) |-> Shape(arena, t.elems[i])])
         [] t.ty = "Function" ->
              TyFunction([i \in 1..Len(t.elems) |-> Shape(arena, t.elems[i])],
                         Shape(arena, t.ret))
         [] OTHER -> t

\* An environment by the shape of the type each name has.
EnvOf(arena, locals) == [n \in DOMAIN locals |-> Shape(arena, locals[n])]

\* The environment of the call main makes.
Env == EnvOf(checker.arena, checker.locals)

\* A typed item without its expressions: what it is, the names it gives and
\* the shapes of its types, and the same of every item it holds.
OutlineItem(arena, it) ==
    CASE it.item = "Let" ->
           [item |-> "Let", name |-> it.name, ty |-> Shape(arena, it.ty),
            expr |-> Shape(arena, it.expr.ty)]
      [] it.item = "Function" ->
           [item |-> "Function", name |-> it.name, ty |-> Shape(arena, it.ty),
            args |-> [i \in 1..Len(it.args) |->
                        [name |-> it.args[i].name, ty |-> Shape(arena, it.args[i].ty)]],
            body |-> Outline(arena, it.body)]
      [] it.item = "If" ->
           [item |-> "If", condition |-> Shape(arena, it.condition.ty),
            arm_true |-> Outline(arena, it.arm_true),
            arm_false |-> IF it.arm_false = NoArm THEN NoArm
                          ELSE SomeArm(Outline(arena, it.arm_false.items))]
      [] it.item = "ForIn" ->
           [item |-> "ForIn", name |-> it.name, expr |-> Shape(arena, it.expr.ty),
            body |-> Outline(arena, it.body)]
      [] it.item = "Loop" -> [item |-> "Loop", body |-> Outline(arena, it.body)]
      [] it.item = "Assignment" ->
           [item |-> "Assignment", lhs |-> Shape(arena, it.lhs.ty),
            expr |-> Shape(arena, it.expr.ty)]
      [] it.item \in {"Return", "Expression"} ->
           [item |-> it.item, expr |-> Shape(arena, it.expr.ty)]
      [] OTHER -> it

Outline(arena, its) == [i \in 1..Len(its) |-> OutlineItem(arena, its[i])]

\* The loop of main's call is through with the only item of the program, or
\* did not return from it.
Stepped == Len(items) = 1 /\ (checker.at = 1 \/ checker.res = "Panic")

\* The program is `fn f() -> i32 { body }`, body made of StmtAlphabet.
StmtFamily ==
    /\ Len(items) = 1
    /\ items[1].item = "Function"
    /\ items[1].args = <<>>
    /\ items[1].ty = I32_

\* What the function checked into: the outline of its body.
LoweredBody ==
    IF checker.lowered_items = <<>> THEN <<>>
    ELSE Outline(checker.arena, checker.lowered_items[1].body)

\* The call of main did with the program what r says infer_types does with
\* another: the same failure, or the same items and environment.
SameAs(r) ==
    /\ (r.res = "Panic") = (checker.res = "Panic")
    /\ r.res # "Panic" =>
          /\ Outline(r.arena, <<r.item>>) = Outline(checker.arena, checker.lowered_items)
          /\ EnvOf(r.arena, r.locals) = Env

\* `fn f() -> i32 { body }` checked on its own.
Alone(body) == infer_item(Fn("f", <<>>, I32_, body), <<>>, NoLocals, 0)

\* `let v;` and `let v: bool = 1;`
DroppedLets == {ItemLet("v", TypeNone, NoExpr), ItemLet("v", BOOL_, Integer(1))}

NotDroppedLet(stmt) == stmt \notin DroppedLets

\* C13: a let without an initializer, or whose declared type is not
\* compatible with the type of its initializer, yields no typed item, leaves
\* the environment as it was and is no fatal failure, and the statements after
\* it are checked: a function body checks into the items, the environment and
\* the failure that the body without such lets checks into.
C13_DroppedLet ==
    StmtFamily /\ Stepped => SameAs(Alone(SelectSeq(items[1].body, NotDroppedLet)))

\* `let v: bool = 1; let v = 1; return v;` has been checked: v is I32 and the
\* body is the second let and the return.
C13_Witness ==
    /\ StmtFamily /\ Stepped
    /\ items[1].body = <<ItemLet("v", BOOL_, Integer(1)), ItemLet("v", TypeNone, Integer(1)),
                         ItemReturn(Identifier("v"))>>
    /\ checker.res = "Running"
    /\ Env["v"] = TyI32
    /\ LoweredBody = <<[item |-> "Let", name |-> "v", ty |-> TyI32, expr |-> TyI32],
                       [item |-> "Return", expr |-> TyI32]>>

\* `if 1 { let t = 1; } else { let e = 2; }` and `if q { let t = 1; }`, q
\* not declared: conditions of type I32 and Error.
DroppedIfs ==
    { ItemIf(Integer(1), <<ItemLet("t", TypeNone, Integer(1))>>,
             SomeArm(<<ItemLet("e", TypeNone, Integer(2))>>)),
      ItemIf(Identifier("q"), <<ItemLet("t", TypeNone, Integer(1))>>, NoArm) }

NotDroppedIf(stmt) == stmt \notin DroppedIfs

\* C14: an `if` whose condition has a type other than Bool yields no typed
\* If, neither arm is checked (no binding of an arm enters the environment),
\* it is no fatal failure, and the statements after it are checked and
\* emitted: a function body checks into what the body without such ifs checks
\* into.
C14_NonBoolIf ==
    StmtFamily /\ Stepped => SameAs(Alone(SelectSeq(items[1].body, NotDroppedIf)))

\* `if q { let t = 1; } let v = 1; return v;` has been checked: t is not
\* bound, and the body is the let and the return.
C14_Witness ==
    /\ StmtFamily /\ Stepped
    /\ items[1].body = <<ItemIf(Identifier("q"), <<ItemLet("t", TypeNone, Integer(1))>>, NoArm),
                         ItemLet("v", TypeNone, Integer(1)), ItemReturn(Identifier("v"))>>
    /\ checker.res = "Running"
    /\ DOMAIN Env = {"f", "v"}
    /\ LoweredBody = <<[item |-> "Let", name |-> "v", ty |-> TyI32, expr |-> TyI32],
                       [item |-> "Return", expr |-> TyI32]>>

\* The instances of the checker's arena that are of the kind k.
OfKind(k) == {a \in 1..Len(checker.arena) : checker.arena[a].ty = k}

\* C12: compatibility is directional between arrays and slices: an Array(n, T)
\* is compatible to a Slice(U) exactly when T is compatible to U, a Slice is
\* never compatible to an Array, and I32 is compatible to I32 and not to F32;
\* of every two types the checker has allocated.
C12_Directional ==
    /\ \A a \in OfKind("Array"), s \in OfKind("Slice") :
          /\ is_compatible_to(checker.arena, a, s)
                <=> is_compatible_to(checker.arena, checker.arena[a].elem, checker.arena[s].elem)
          /\ ~is_compatible_to(checker.arena, s, a)
    /\ \A i \in OfKind("I32") :
          /\ \A j \in OfKind("I32") : is_compatible_to(checker.arena, i, j)
          /\ \A f \in OfKind("F32") : ~is_compatible_to(checker.arena, i, f)

\* The checker has allocated an array that is compatible to a slice, an array
\* that is not compatible to a slice, an I32 and an F32.
C12_Witness ==
    /\ checker.at > 0
    /\ \E a \in OfKind("Array"), s \in OfKind("Slice") :
          is_compatible_to(checker.arena, a, s) /\ Shape(checker.arena, s) = TySlice(TyI32)
    /\ \E a \in OfKind("Array"), s \in OfKind("Slice") :
          ~is_compatible_to(checker.arena, a, s)
    /\ OfKind("I32") # {} /\ OfKind("F32") # {}

\* fn add(a: i32, b: i32) -> i32 { return a + b; }
FnAdd ==
    <<Fn("add", <<Param("a", I32_), Param("b", I32_)>>, I32_,
         <<ItemReturn(Infix("Add", Identifier("a"), Identifier("b")))>>)>>

\* The typed items of `fn add`, in outline.
AddLowered ==
    <<[item |-> "Function", name |-> "add", ty |-> TyI32,
       args |-> <<[name |-> "a", ty |-> TyI32], [name |-> "b", ty |-> TyI32]>>,
       body |-> <<[item |-> "Return", expr |-> TyI32]>>]>>

\* C15: `fn add(a: i32, b: i32) -> i32 { return a + b; }` checks to one typed
\* Function with the arguments a: I32 and b: I32, the return type I32 and a
\* body that is the Return typed I32, and add is bound in the environment to
\* Function([I32, I32], I32).
C15_FnAdd ==
    items = FnAdd /\ checker.at > 0 =>
        /\ checker.res # "Panic"
        /\ Outline(checker.arena, checker.lowered_items) = AddLowered
        /\ Env["add"] = TyFunction(<<TyI32, TyI32>>, TyI32)

\* The call main makes has returned the typed `fn add`.
C15_Witness ==
    /\ items = FnAdd
    /\ checker.res = "Done"
    /\ Len(checker.lowered_items) = 1
    /\ checker.lowered_items[1].item = "Function"
    /\ "add" \in DOMAIN checker.locals

\* The statements `-v;` and `*w;`
NegateStmt == ItemExpr(Prefix("Negate", Identifier("v")))
DerefStmt == ItemExpr(Prefix("Deref", Identifier("w")))

IsNegateStmt(stmt) == stmt = NegateStmt

IsExpression(it) == it.item = "Expression"

\* The typed item is a let from, or a statement that is, the prefix op of an
\* operand.
OfPrefix(it, op) ==
    /\ it.item \in {"Let", "Expression"}
    /\ it.expr.expr.k = "Prefix"
    /\ it.expr.expr.op = op

\* The typed body of the function: the typed items themselves.
TypedBody == checker.lowered_items[1].body

\* Every typed `&` of the body has the type Pointer(T), T the type of its
\* operand.
RefIsPointer ==
    \A k \in 1..Len(TypedBody) :
        OfPrefix(TypedBody[k], "Ref") =>
            Shape(checker.arena, TypedBody[k].expr.ty)
                = TyPointer(Shape(checker.arena, TypedBody[k].expr.expr.operand.ty))

\* Every `-` statement of the body is among the typed items, and has the
\* type of its operand.
NegateIsTyped ==
    /\ Len(SelectSeq(TypedBody, IsExpression)) = Len(SelectSeq(items[1].body, IsNegateStmt))
    /\ \A k \in 1..Len(TypedBody) :
          TypedBody[k].item = "Expression" =>
              /\ OfPrefix(TypedBody[k], "Negate")
              /\ TypedBody[k].expr.ty = TypedBody[k].expr.expr.operand.ty

\* The claim: checking a function body is a fatal failure exactly when a `-`
\* or a `*` is reached, and a `&` is typed Pointer(T).
C19_AsStated ==
    StmtFamily /\ Stepped =>
        /\ checker.res = "Panic"
             <=> \E i \in 1..Len(items[1].body) : items[1].body[i] \in {NegateStmt, DerefStmt}
        /\ checker.res # "Panic" => RefIsPointer

\* C19, amended: prefix `&` of an operand of type T is typed Pointer(T),
\* prefix `-` is typed with the type of its operand, and prefix `*` is a fatal
\* failure: checking a function body fails exactly when it has a `*`, and
\* otherwise every `&` and every `-` of it is typed so.
C19_Prefix ==
    StmtFamily /\ Stepped =>
        /\ checker.res = "Panic"
             <=> \E i \in 1..Len(items[1].body) : items[1].body[i] = DerefStmt
        /\ checker.res # "Panic" => RefIsPointer /\ NegateIsTyped

\* `let v = 1; let w = &v; -v;` has been checked: w is a pointer to I32 and
\* the negation is typed I32.
C19_Witness ==
    /\ StmtFamily /\ Stepped
    /\ items[1].body = <<ItemLet("v", TypeNone, Integer(1)),
                         ItemLet("w", TypeNone, Prefix("Ref", Identifier("v"))), NegateStmt>>
    /\ checker.res = "Running"
    /\ Env["w"] = TyPointer(TyI32)
    /\ LoweredBody[3] = [item |-> "Expression", expr |-> TyI32]

\* The program is `fn f(p: from) { let v: to = p; }` and has been checked.
LetChecked ==
    /\ Stepped
    /\ items[1].item = "Function"
    /\ Len(items[1].args) = 1
    /\ Len(items[1].body) = 1
    /\ items[1].body[1].item = "Let"
    /\ items[1].body[1].expr = Identifier("p")

\* The type of the initializer and the declared type of the let.
LetInitializer == items[1].args[1].ty
LetDeclared == items[1].body[1].ty

\* The let is among the typed items and v is bound to a type of the kind k.
LetAccepted(k) ==
    /\ checker.res # "Panic"
    /\ Len(LoweredBody) = 1
    /\ LoweredBody[1].item = "Let"
    /\ LoweredBody[1].ty.ty = k
    /\ "v" \in DOMAIN Env
    /\ Env["v"].ty = k

\* The let is not among the typed items and v is not bound.
LetDropped ==
    /\ checker.res # "Panic"
    /\ LoweredBody = <<>>
    /\ "v" \notin DOMAIN Env

\* C20: a let whose declared type is Slice(T) and whose initializer has the
\* type Array(n, T) is accepted, its typed Let emitted and the name bound to
\* the slice type; a let whose declared type is Array(n, T) and whose
\* initializer has the type Slice(T) is dropped.
C20_SliceFromArray ==
    LetChecked =>
        /\ (/\ LetDeclared.t = "Slice" /\ LetInitializer.t = "Array"
            /\ LetDeclared.ty = LetInitializer.ty) => LetAccepted("Slice")
        /\ (/\ LetDeclared.t = "Array" /\ LetInitializer.t = "Slice"
            /\ LetDeclared.ty = LetInitializer.ty) => LetDropped

\* The call main makes is through with the first item, or did not return.
FirstChecked == checker.at > 0 \/ checker.res = "Panic"

\* The first typed item is a function whose body is `return callee(..)`, the
\* call typed I32.
ReturnsCall(callee) ==
    /\ checker.res # "Panic"
    /\ checker.lowered_items # <<>>
    /\ checker.lowered_items[1].item = "Function"
    /\ Len(checker.lowered_items[1].body) = 1
    /\ checker.lowered_items[1].body[1].item = "Return"
    /\ checker.lowered_items[1].body[1].expr.expr.k = "Call"
    /\ checker.lowered_items[1].body[1].expr.expr.callee.expr = Identifier(callee)
    /\ Shape(checker.arena, checker.lowered_items[1].body[1].expr.ty) = TyI32

\* C21: a function body may call the function itself, and may call a function
\* declared later in the same sequence: both calls check to a Call typed with
\* the callee's return type, without a fatal failure.
C21_Calls ==
    /\ items = Recursive /\ FirstChecked => ReturnsCall("r")
    /\ items = Forward /\ FirstChecked => ReturnsCall("g")

\* The type of z in Scopes: those of t, e, l, b, i and p.
ScopesTuple == TyTuple(<<TyI32, TyBool, TyF32, TyPointer(TyI32), TyI32, TyI32>>)

\* What Scopes has bound when its first function has been checked, and when
\* its second has: every name of every nested body, the loop variable and the
\* parameter resolve in the let that follows them, and in the next function.
NestedResolve ==
    items = Scopes =>
        /\ checker.at >= 1 =>
              /\ {"p", "t", "e", "l", "i", "b", "z", "f"} \subseteq DOMAIN Env
              /\ Env["z"] = ScopesTuple
        /\ checker.at >= 2 =>
              /\ DOMAIN Env = {"p", "t", "e", "l", "i", "b", "z", "f", "g", "y", "x"}
              /\ Env["y"] = TyI32
              /\ Env["x"] = ScopesTuple

\* C22: the environment only grows: no step of infer_types takes a name out of
\* it, and a name bound by a let in an if arm, a loop body or a for body, a
\* for variable and a function's parameter resolve in every later statement
\* of the enclosing and of the outer sequences.
C22_Grows ==
    [][DOMAIN checker.locals \subseteq DOMAIN checker'.locals /\ NestedResolve']_vars

\* Both functions of Scopes have been checked: x has the type of z.
C22_Witness ==
    /\ items = Scopes
    /\ checker.at = 2
    /\ checker.res = "Running"
    /\ Env["x"] = ScopesTuple

\* A typed return of an expression of the type ty, in outline; kept where
\* the function returns ty, dropped where it returns another type.
Kept(ret_ty, ty) == IF ret_ty = ty THEN <<[item |-> "Return", expr |-> ty]>> ELSE <<>>

\* The typed body of ReturnsIn as it should be where the function returns
\* ret_ty, in outline.
KeptReturns(ret_ty) ==
    <<[item |-> "If", condition |-> TyBool,
       arm_true |->
           <<[item |-> "Loop",
              body |-> <<[item |-> "ForIn", name |-> "i", expr |-> TyRange,
                          body |-> Kept(ret_ty, TyI32) \o Kept(ret_ty, TyBool)]>>
                           \o Kept(ret_ty, TyI32)]>>
               \o Kept(ret_ty, TyBool),
       arm_false |-> SomeArm(Kept(ret_ty, TyI32))]>>

\* C23: a return nested at any depth in if arms, loop bodies and for bodies of
\* a function is checked against the function's declared return type: kept
\* when the type of its expression is compatible with it, dropped without a
\* fatal failure otherwise; a return with no function around it is a fatal
\* failure.
C23_Returns ==
    /\ items = ReturnsIn(I32_) /\ FirstChecked =>
            checker.res # "Panic" /\ LoweredBody = KeptReturns(TyI32)
    /\ items = ReturnsIn(BOOL_) /\ FirstChecked =>
            checker.res # "Panic" /\ LoweredBody = KeptReturns(TyBool)
    /\ items = TopReturn /\ FirstChecked => checker.res = "Panic"

\* The function returning bool has been checked: of its five returns the two
\* of a Bool are kept, one in the for body and one in the if arm.
C23_Witness ==
    /\ items = ReturnsIn(BOOL_)
    /\ checker.at = 1
    /\ LoweredBody[1].arm_true[2] = [item |-> "Return", expr |-> TyBool]
    /\ LoweredBody[1].arm_true[1].body[1].body = <<[item |-> "Return", expr |-> TyBool]>>
    /\ LoweredBody[1].arm_false = SomeArm(<<>>)

RECURSIVE WellFormed(_, _)

\* The instance ty of an arena holds neither Error nor Unknown, itself or in
\* a type it is built from.
WellFormed(arena, ty) ==
    LET t == arena[ty]
    IN CASE t.ty \in {"Error", "Unknown"} -> FALSE
         [] t.ty \in {"Array", "Slice", "Pointer"} -> WellFormed(arena, t.elem)
         [] t.ty = "Tuple" -> \A i \in 1..Len(t.elems) : WellFormed(arena, t.elems[i])
         [] t.ty = "Function" ->
              /\ WellFormed(arena, t.ret)
              /\ \A i \in 1..Len(t.elems) : WellFormed(arena, t.elems[i])
         [] OTHER -> TRUE

\* C28: compatibility is reflexive on well-formed types: every type that
\* holds neither Error nor Unknown is compatible to itself, Range and every
\* array, slice, tuple, pointer and function type built from such types
\* included; of every type the checker has allocated.
C28_Reflexive ==
    \A ty \in 1..Len(checker.arena) :
        WellFormed(checker.arena, ty) => is_compatible_to(checker.arena, ty, ty)

RECURSIVE LetsIn(_)

\* The typed Let items of a sequence of typed items, at any depth.
LetsIn(its) ==
    UNION { CASE its[i].item = "Let" -> {its[i]}
              [] its[i].item \in {"Function", "ForIn", "Loop"} -> LetsIn(its[i].body)
              [] its[i].item = "If" ->
                   LetsIn(its[i].arm_true)
                       \cup (IF its[i].arm_false = NoArm THEN {}
                             ELSE LetsIn(its[i].arm_false.items))
              [] OTHER -> {}
            : i \in 1..Len(its) }

\* The instance ty of the checker's arena is Error or Unknown.
Untyped(ty) == checker.arena[ty].ty \in {"Error", "Unknown"}

\* The claim: the environment maps no name to Error or Unknown, and no
\* typed Let carries either.
C29_AsStated ==
    /\ \A name \in DOMAIN checker.locals : ~Untyped(checker.locals[name])
    /\ \A it \in LetsIn(checker.lowered_items) : ~Untyped(it.ty)

\* The program is `fn e() { stmt }` and has been checked.
OneLet(stmt) == items = LetsOf(<<stmt>>) /\ checker.at = 1

\* The name is bound to the type ty and the body is the typed let of it.
BoundTo(name, ty) ==
    /\ name \in DOMAIN Env
    /\ Env[name] = ty
    /\ LoweredBody = <<[item |-> "Let", name |-> name, ty |-> ty, expr |-> ty]>>

\* C29, amended: a let with a declared type binds its name, and is emitted,
\* only with a type that is neither Error nor Unknown, and is dropped when its
\* initializer does not type; a let without a declared type binds its name to
\* the type of its initializer whatever that is, so an unresolved identifier
\* or mismatched infix operands bind it to Error and an empty array literal
\* to Unknown, and the typed Let carries that type.
C29_ErrorBindings ==
    /\ \A it \in LetsIn(checker.lowered_items) : Untyped(it.ty) => it.ty = it.expr.ty
    /\ OneLet(ItemLet("v", TypeNone, Identifier("q"))) => BoundTo("v", TyError)
    /\ OneLet(ItemLet("v", TypeNone, Array(<<>>))) => BoundTo("v", TyUnknown)
    /\ OneLet(ItemLet("v", TypeNone, Infix("Add", Integer(1), Bool(TRUE)))) =>
            BoundTo("v", TyError)
    /\ OneLet(ItemLet("w", TypeNone, Identifier("v"))) => BoundTo("w", TyError)
    /\ OneLet(ItemLet("u", I32_, Identifier("q"))) =>
            "u" \notin DOMAIN Env /\ LoweredBody = <<>>

\* `fn e() { let v = []; let w = v; }` has been checked: v and w are bound
\* to Unknown.
C29_Witness ==
    /\ items = LetsOf(<<ItemLet("v", TypeNone, Array(<<>>)),
                        ItemLet("w", TypeNone, Identifier("v"))>>)
    /\ checker.at = 1
    /\ Env["v"] = TyUnknown
    /\ Env["w"] = TyUnknown
    /\ Len(LoweredBody) = 2

====
